---- MODULE Spec2Model ----
(***************************************************************************)
(* Model of the Table manifest's rule evaluator                            *)
(* (common/manifests/table/table.ts) of turnilo: the rule chain            *)
(*   when(noSplits).then(manualDimensionSelection)                         *)
(*   .when(supportedSplitsCount).then(removeExcessiveSplits)               *)
(*   .otherwise(<sort / limit / colors fallback>)                          *)
(* evaluated over a context {splits, dataCube, colors,                     *)
(* isSelectedVisualization, series}.                                       *)
(***************************************************************************)
EXTENDS Integers, Sequences, FiniteSets, TLC

\* ---------------------------------------------------------------- bounds
\* longest split sequence drawn as an input
MaxLen == 3
\* largest "maximum supported splits" drawn as an input
MaxSupported == 2
\* most automatic adjustments applied in a row to one context
MaxRounds == 2
\* most dimensions of a data cube given to the Resolutions helpers
MaxDims == 3
\* most measures, and most default measures, of such a data cube
MaxMeasures == 2
\* most splits of the essence the Table visualization shows
MaxTableSplits == 2
\* end of the line chart's axis range [0, MaxAxis)
MaxAxis == 4
\* most drags of the line chart ended by a mouseup
MaxDrags == 2
\* most clauses of the filter the FilterTile shows
MaxClauses == 2
\* most items the FilterTile shows outside its overflow menu
MaxItems == 2

\* ------------------------------------------------------------ value domain
\* JavaScript null / undefined for string-valued fields
Null == "null"
\* `!split.limit` is true for null, undefined and 0 alike: 0 stands for them
NoLimit == 0
descending == "descending"
ascending == "ascending"

\* the value a failed lookup yields (dataCube.getDimension of an unknown name)
Undefined == [name |-> Null, kind |-> "undefined", sortStrategy |-> Null]

\* names a split may reference: two dimensions of the cube and one that is
\* no longer in it
TimeDim == "time"
StringDim == "country"
StaleDim == "gone"
References == {TimeDim, StringDim, StaleDim}

\* sortStrategy of a dimension: none, "self", or the name of a measure
SortStrategies == {Null, "self", "count"}

\* new Sort({reference, direction})
Sort(reference, dir) == [reference |-> reference, direction |-> dir]

\* a Split whose sort was never set holds the empty Sort
EmptySort == Sort(Null, Null)
\* a sort the user chose by hand; differs from every sort the fallback makes
UserSort == Sort("added", ascending)

\* Sort.empty()
empty(sort) == sort.reference = Null

\* the data cubes drawn as inputs: a time and a string dimension, in cube
\* order, each with any sortStrategy; default sort measure "delta"
DataCubes ==
    { [dimensions |-> << [name |-> TimeDim, kind |-> "time", sortStrategy |-> s1],
                         [name |-> StringDim, kind |-> "string", sortStrategy |-> s2] >>,
       defaultSortMeasure |-> "delta"] : s1 \in SortStrategies, s2 \in SortStrategies }

\* limits drawn as inputs: none, or one the user set by hand (10 is neither
\* of the defaults 50 and 5)
LimitValues == {NoLimit, 10}

\* the splits drawn as inputs
\* split.bucket: a split on the time dimension is bucketed by day
bucketOf(reference) == IF reference = TimeDim THEN "P1D" ELSE Null
SplitValues ==
    { [reference |-> reference, sort |-> sort, limit |-> limit,
       bucket |-> bucketOf(reference)] :
          reference \in References, sort \in {EmptySort, UserSort}, limit \in LimitValues }

SplitSeqs == UNION { [1..n -> SplitValues] : n \in 0..MaxLen }

\* colors: absent, or a legend on the string dimension
ColorValues == {Null, StringDim}

\* series list: empty or one measure
SeriesValues == { <<>>, <<"count">> }

\* ------------------------------------------------------- data cube lookups
\* DataCube.getDimension: the dimension of that name, or nothing
getDimension(dataCube, name) ==
    LET hits == { i \in DOMAIN dataCube.dimensions : dataCube.dimensions[i].name = name }
    IN  IF hits = {} THEN Undefined
        ELSE dataCube.dimensions[CHOOSE i \in hits : \A j \in hits : i <= j]

\* DataCube.getDefaultSortExpression
getDefaultSortExpression(dataCube) == Sort(dataCube.defaultSortMeasure, descending)

\* Split.changeSort / Split.changeLimit
changeSort(split, sort) == [split EXCEPT !.sort = sort]
changeLimit(split, limit) == [split EXCEPT !.limit = limit]

\* ------------------------------------------------------------- resolutions
\* Resolve.manual / Resolve.automatic / Resolve.ready; Thrown is an
\* evaluation that ended in a TypeError instead of returning
\* an adjustment `{ splits }`: it carries splits and no colors
Adjustment(splits) == [splits |-> splits, colors |-> Null]
NoAdjustment == Adjustment(<<>>)
manual(message) ==
    [state |-> "MANUAL", score |-> 0, adjustment |-> NoAdjustment, message |-> message]
automatic(score, adjustment) ==
    [state |-> "AUTOMATIC", score |-> score, adjustment |-> adjustment, message |-> Null]
ready(score) ==
    [state |-> "READY", score |-> score, adjustment |-> NoAdjustment, message |-> Null]
Thrown ==
    [state |-> "THROWN", score |-> 0, adjustment |-> NoAdjustment, message |-> "TypeError"]
NoResolution ==
    [state |-> "NONE", score |-> 0, adjustment |-> NoAdjustment, message |-> Null]

\* ------------------------------------------------------------- predicates
\* Predicates.noSplits(): true iff the split sequence is empty
noSplits(ctx) == Len(ctx.splits) = 0

\* Predicates.supportedSplitsCount(): true iff the split count exceeds the
\* maximum the visualization supports
supportedSplitsCount(ctx) == Len(ctx.splits) > ctx.supportedMax

\* ---------------------------------------------------------------- actions
\* Actions.manualDimensionSelection(message)
manualDimensionSelection(message, ctx) == manual(message)

\* Actions.removeExcessiveSplits(title): keep the first supportedMax splits
removeExcessiveSplits(title, ctx) ==
    automatic(0, Adjustment(SubSeq(ctx.splits, 1, ctx.supportedMax)))

\* --------------------------------------------------- the Table's fallback
\* `i ? 5 : 50`, i the JS index of the split
defaultLimit_swapped(i) == IF i # 0 THEN 50 ELSE 5
defaultLimit(i) == IF i # 0 THEN 5 ELSE 50

\* One call of the callback given to splits.map: `split` at JS index i of
\* the list `splits`, with the closure variable autoChanged as it stands.
\* Yields the mapped split, the new autoChanged, and whether it threw.
otherwiseSplit_resort(split, i, splits, dataCube, autoChanged) ==
    LET splitDimension == getDimension(dataCube, Head(splits).reference)
        sortStrategy == splitDimension.sortStrategy
        sorted ==
            IF empty(split.sort) \/ i # 0
            THEN IF sortStrategy # Null
                 THEN IF sortStrategy = "self"
                      THEN changeSort(split, Sort(splitDimension.name, descending))
                      ELSE changeSort(split, Sort(sortStrategy, descending))
                 ELSE changeSort(split, getDefaultSortExpression(dataCube))
            ELSE split
        autoAfterSort == autoChanged \/ (empty(split.sort) /\ sortStrategy = Null)
        limitNeeded ==
            sorted.limit = NoLimit /\ (autoAfterSort \/ splitDimension.kind # "time")
    IN  IF splitDimension = Undefined
        THEN [split |-> split, autoChanged |-> autoChanged, thrown |-> TRUE]
        ELSE [split |-> IF limitNeeded THEN changeLimit(sorted, defaultLimit(i))
                                       ELSE sorted,
              autoChanged |-> autoAfterSort \/ limitNeeded,
              thrown |-> FALSE]
otherwiseSplit(split, i, splits, dataCube, autoChanged) ==
    LET splitDimension == getDimension(dataCube, Head(splits).reference)
        sortStrategy == splitDimension.sortStrategy
        sorted ==
            IF empty(split.sort)
            THEN IF sortStrategy # Null
                 THEN IF sortStrategy = "self"
                      THEN changeSort(split, Sort(splitDimension.name, descending))
                      ELSE changeSort(split, Sort(sortStrategy, descending))
                 ELSE changeSort(split, getDefaultSortExpression(dataCube))
            ELSE split
        autoAfterSort == autoChanged \/ (empty(split.sort) /\ sortStrategy = Null)
        limitNeeded ==
            sorted.limit = NoLimit /\ (autoAfterSort \/ splitDimension.kind # "time")
    IN  IF splitDimension = Undefined
        THEN [split |-> split, autoChanged |-> autoChanged, thrown |-> TRUE]
        ELSE [split |-> IF limitNeeded THEN changeLimit(sorted, defaultLimit(i))
                                       ELSE sorted,
              autoChanged |-> autoAfterSort \/ limitNeeded,
              thrown |-> FALSE]

\* splits.map(callback): the callback runs on the splits in order, each call
\* seeing the autoChanged the calls before it left
RECURSIVE mapSplits(_, _, _, _, _)
mapSplits(splits, k, dataCube, autoChanged, done) ==
    IF k > Len(splits)
    THEN [splits |-> done, autoChanged |-> autoChanged, thrown |-> FALSE]
    ELSE LET r == otherwiseSplit(splits[k], k - 1, splits, dataCube, autoChanged)
         IN  IF r.thrown
             THEN [splits |-> done, autoChanged |-> autoChanged, thrown |-> TRUE]
             ELSE mapSplits(splits, k + 1, dataCube, r.autoChanged, Append(done, r.split))

\* newSplits as the fallback computes it (autoChanged starts false)
newSplits(ctx) == mapSplits(ctx.splits, 1, ctx.dataCube, FALSE, <<>>)

\* the function given to .otherwise(...)
otherwise_unadjusted(ctx) ==
    LET mapped == newSplits(ctx)
        autoChanged == mapped.autoChanged \/ ctx.colors # Null
    IN  IF mapped.thrown THEN Thrown
        ELSE IF autoChanged THEN automatic(6, Adjustment(ctx.splits))
        ELSE ready(IF ctx.isSelectedVisualization THEN 10 ELSE 8)
otherwise_keepColors(ctx) ==
    LET mapped == newSplits(ctx)
        autoChanged == mapped.autoChanged \/ ctx.colors # Null
    IN  IF mapped.thrown THEN Thrown
        ELSE IF autoChanged
             THEN automatic(6, [splits |-> mapped.splits, colors |-> ctx.colors])
        ELSE ready(IF ctx.isSelectedVisualization THEN 10 ELSE 8)
otherwise(ctx) ==
    LET mapped == newSplits(ctx)
        autoChanged == mapped.autoChanged \/ ctx.colors # Null
    IN  IF mapped.thrown THEN Thrown
        ELSE IF autoChanged THEN automatic(6, Adjustment(mapped.splits))
        ELSE ready(IF ctx.isSelectedVisualization THEN 10 ELSE 8)

\* ------------------------------------------------------- the rule evaluator
\* the predicates and actions a chain may name
Predicate(name, ctx) ==
    CASE name = "noSplits" -> noSplits(ctx)
      [] name = "supportedSplitsCount" -> supportedSplitsCount(ctx)

Action(name, ctx) ==
    CASE name = "manualDimensionSelection" ->
             manualDimensionSelection("The Table requires at least one split", ctx)
      [] name = "removeExcessiveSplits" -> removeExcessiveSplits("Table", ctx)
      [] name = "otherwise" -> otherwise(ctx)

\* the evaluator a built chain is: test the predicates in registration
\* order, run the action of the first one that holds and return its result;
\* run the fallback when none holds.  `tested` lists the predicates tested
\* and `ran` the one action that ran.
RECURSIVE evaluate(_, _, _, _)
evaluate(rules, k, tested, ctx) ==
    IF k > Len(rules)
    THEN [resolution |-> Action("otherwise", ctx), tested |-> tested, ran |-> "otherwise"]
    ELSE IF Predicate(rules[k].when, ctx)
         THEN [resolution |-> Action(rules[k].then, ctx),
               tested |-> Append(tested, rules[k].when), ran |-> rules[k].then]
         ELSE evaluate(rules, k + 1, Append(tested, rules[k].when), ctx)

\* the Table's chain, in registration order
TableRules_noManual ==
    << [when |-> "supportedSplitsCount", then |-> "removeExcessiveSplits"] >>
TableRules_noExcess ==
    << [when |-> "noSplits", then |-> "manualDimensionSelection"] >>
TableRules_swapped ==
    << [when |-> "supportedSplitsCount", then |-> "removeExcessiveSplits"],
       [when |-> "noSplits", then |-> "manualDimensionSelection"] >>
TableRules ==
    << [when |-> "noSplits", then |-> "manualDimensionSelection"],
       [when |-> "supportedSplitsCount", then |-> "removeExcessiveSplits"] >>

rulesEvaluator(ctx) == evaluate(TableRules, 1, <<>>, ctx)

\* applying an AUTOMATIC verdict's adjustment: the state takes the splits
\* and the colors of the adjustment, so an adjustment that carries no colors
\* leaves the state without colors
applyAdjustment(ctx, adjustment) ==
    [ctx EXCEPT !.splits = adjustment.splits, !.colors = adjustment.colors]

\* ------------------------------------------------------------ Resolutions
\* (common/utils/rules/resolutions.ts)
\* names of dimensions by position in the cube, and names of measures
DimNames == << "d1", "d2", "d3", "d4", "d5" >>
MeasureNames == {"count", "added", "delta"}

\* the title of a dimension or measure
Title(name) == << "title of", name >>

Kinds == {"string", "time", "number"}

\* sequences without repetition over S, of length at most n
InjectiveSeqs(S, n) ==
    UNION { { q \in [1..k -> S] : \A i, j \in 1..k : q[i] = q[j] => i = j } : k \in 0..n }

\* the data cubes given to the helpers: any kinds of dimensions, any
\* measures, and default measures that are absent or any set of names, of
\* which some may name no measure of the cube
ResolutionCubes ==
    { [dimensions |-> [i \in 1..Len(ks) |-> [name |-> DimNames[i], title |-> Title(DimNames[i]),
                                              kind |-> ks[i]]],
       measures |-> [i \in 1..Len(ms) |-> [name |-> ms[i], title |-> Title(ms[i])]],
       defaultSelectedMeasures |-> ds] :
        ks \in UNION { [1..n -> Kinds] : n \in 0..MaxDims },
        ms \in InjectiveSeqs(MeasureNames, MaxMeasures),
        ds \in [declared : {TRUE}, names : InjectiveSeqs(MeasureNames, MaxMeasures)]
               \cup { [declared |-> FALSE, names |-> <<>>] } }

\* what `measures.first()` and `getMeasure` of an unknown name yield
UndefinedMeasure == [name |-> Null, title |-> Title(Null)]

\* list.filter(pred), keeping the order
RECURSIVE SelectKind(_, _)
SelectKind(dims, kind) ==
    IF dims = <<>> THEN <<>>
    ELSE IF Head(dims).kind = kind THEN << Head(dims) >> \o SelectKind(Tail(dims), kind)
    ELSE SelectKind(Tail(dims), kind)

\* DataCube.getDimensionsByKind
getDimensionsByKind(cube, kind) == SelectKind(cube.dimensions, kind)

\* DataCube.getMeasure: the measure of that name, or nothing
getMeasure(cube, name) ==
    LET hits == { i \in DOMAIN cube.measures : cube.measures[i].name = name }
    IN  IF hits = {} THEN UndefinedMeasure
        ELSE cube.measures[CHOOSE i \in hits : \A j \in hits : i <= j]

\* list.slice(0, n)
slice(list, n) == SubSeq(list, 1, IF Len(list) < n THEN Len(list) ELSE n)

\* Split.fromDimension, Splits.fromSplit, Series.fromMeasure
fromDimension(dimension) == [reference |-> dimension.name, sort |-> EmptySort, limit |-> NoLimit]
fromSplit(split) == << split >>
fromMeasure(measure) == [reference |-> measure.name]

\* OrderedSet.map(f).toArray(): the images in order, each kept once
RECURSIVE mapOrderedSet(_, _, _)
mapOrderedSet(names, cube, done) ==
    IF names = <<>> THEN done
    ELSE LET m == getMeasure(cube, Head(names))
         IN  mapOrderedSet(Tail(names), cube,
                           IF \E i \in DOMAIN done : done[i] = m THEN done ELSE Append(done, m))

\* what a helper hands back: a list of resolutions, or a TypeError
Returned(list) == [thrown |-> FALSE, list |-> list]
ThrownTypeError == [thrown |-> TRUE, list |-> <<>>]

numberOfSuggestedSplitDimensions == 2

\* Resolutions.someDimensions
someDimensions_firstDimensions(cube) ==
    LET suggestedSplitDimensions ==
            SelectKind(slice(cube.dimensions, numberOfSuggestedSplitDimensions), "string")
    IN  Returned([i \in 1..Len(suggestedSplitDimensions) |->
            [description |-> << "Add a split on", suggestedSplitDimensions[i].title >>,
             adjustment |-> [splits |-> fromSplit(fromDimension(suggestedSplitDimensions[i]))]]])
someDimensions(cube) ==
    LET suggestedSplitDimensions ==
            slice(getDimensionsByKind(cube, "string"), numberOfSuggestedSplitDimensions)
    IN  Returned([i \in 1..Len(suggestedSplitDimensions) |->
            [description |-> << "Add a split on", suggestedSplitDimensions[i].title >>,
             adjustment |-> [splits |-> fromSplit(fromDimension(suggestedSplitDimensions[i]))]]])

\* Resolutions.defaultSelectedMeasures
defaultSelectedMeasures_allMeasures(cube) ==
    LET measures == cube.measures
    IN  IF Len(measures) = 0 THEN Returned(<<>>)
        ELSE Returned(<< [description |-> << "Select default measures",
                                             [i \in 1..Len(measures) |-> measures[i].title] >>,
                          adjustment |-> [series |-> [i \in 1..Len(measures) |->
                                                          fromMeasure(measures[i])]]] >>)
defaultSelectedMeasures(cube) ==
    LET measures == mapOrderedSet(cube.defaultSelectedMeasures.names, cube, <<>>)
    IN  IF Len(measures) = 0 THEN Returned(<<>>)
        ELSE IF \E i \in DOMAIN measures : measures[i] = UndefinedMeasure
             THEN ThrownTypeError
        ELSE Returned(<< [description |-> << "Select default measures",
                                             [i \in 1..Len(measures) |-> measures[i].title] >>,
                          adjustment |-> [series |-> [i \in 1..Len(measures) |->
                                                          fromMeasure(measures[i])]]] >>)

\* Resolutions.firstMeasure
firstMeasure_last(cube) ==
    LET first == IF Len(cube.measures) = 0 THEN UndefinedMeasure
                 ELSE cube.measures[Len(cube.measures)]
    IN  IF first = UndefinedMeasure THEN ThrownTypeError
        ELSE Returned(<< [description |-> << "Select measure", first.title >>,
                          adjustment |-> [series |-> << fromMeasure(first) >>]] >>)
firstMeasure(cube) ==
    LET first == IF Len(cube.measures) = 0 THEN UndefinedMeasure ELSE Head(cube.measures)
    IN  IF first = UndefinedMeasure THEN ThrownTypeError
        ELSE Returned(<< [description |-> << "Select measure", first.title >>,
                          adjustment |-> [series |-> << fromMeasure(first) >>]] >>)

\* ------------------------------------------- the Table visualization
\* (client/visualizations/table/table.tsx)
\* the splits the Table may show: reference and SplitType; a dimension has
\* at most one split (dimension-actions-menu adds a split only when
\* !hasSplitOn), so the references of a split list differ
TableSplitValues ==
    { [reference |-> "time", type |-> "time"],
      [reference |-> "country", type |-> "string"],
      [reference |-> "bytes", type |-> "number"] }
TableReferences == { sp.reference : sp \in TableSplitValues }
TableSplitSeqs == InjectiveSeqs(TableSplitValues, MaxTableSplits)

\* segment values of a row
Segments == {"a", "b"}

\* the rows of the flat data: nesting level "__nest" and one segment value
\* per reference
FlatData == [nest : 0..(MaxTableSplits + 1), segments : [TableReferences -> Segments]]
NoRow == [nest |-> 0, segments |-> [ref \in TableReferences |-> "a"]]

\* a Filter of these clauses, and the null getFilterFromDatum may return
Filter(clauses) == [isNull |-> FALSE, clauses |-> clauses]
NullFilter == [isNull |-> TRUE, clauses |-> <<>>]

\* new NumberFilterClause / FixedTimeFilterClause / StringFilterClause
FilterClause(reference, type, segment) ==
    CASE type = "number" ->
             [clause |-> "NumberFilterClause", reference |-> reference,
              action |-> Null, values |-> {segment}]
      [] type = "time" ->
             [clause |-> "FixedTimeFilterClause", reference |-> reference,
              action |-> Null, values |-> {segment}]
      [] type = "string" ->
             [clause |-> "StringFilterClause", reference |-> reference,
              action |-> "in", values |-> {segment}]

\* list.take(n)
take(list, n) == SubSeq(list, 1, IF Len(list) < n THEN Len(list) ELSE n)

\* getFilterFromDatum(splits, flatDatum)
getFilterFromDatum_allSplits(splitCombines, flatDatum) ==
    LET splitNesting == flatDatum.nest
    IN  IF splitNesting = 0 \/ splitNesting > Len(splitCombines) THEN NullFilter
        ELSE Filter([i \in 1..Len(splitCombines) |->
                        FilterClause(splitCombines[i].reference, splitCombines[i].type,
                                     flatDatum.segments[splitCombines[i].reference])])
getFilterFromDatum(splitCombines, flatDatum) ==
    LET splitNesting == flatDatum.nest
        taken == take(splitCombines, splitNesting)
    IN  IF splitNesting = 0 \/ splitNesting > Len(splitCombines) THEN NullFilter
        ELSE Filter([i \in 1..Len(taken) |->
                        FilterClause(taken[i].reference, taken[i].type,
                                     flatDatum.segments[taken[i].reference])])

\* essence.highlight: none, or the owner, measure and delta of a highlight
Highlight(owner, measure, delta) == [owner |-> owner, measure |-> measure, delta |-> delta]
NoHighlight == Highlight(Null, Null, NullFilter)
\* Table.id
TableId == "table"
\* a highlight another visualization owns
OtherHighlight ==
    Highlight("line-chart", "count", Filter(<< FilterClause("time", "time", "a") >>))

\* essence.highlightOn(owner)
highlightOn(hl, owner) == hl # NoHighlight /\ hl.owner = owner

\* a call of the clicker, and no call
Call(name, owner, measure, delta) ==
    [name |-> name, owner |-> owner, measure |-> measure, delta |-> delta]
NoCall == Call(Null, Null, Null, NullFilter)

\* Table.onClick on a row: the filter built from the row (null when none was
\* built) and the clicker call made
onClickRow_noDrop(tSplits, hl, clk, flatDatum) ==
    IF ~clk.dropHighlight \/ ~clk.changeHighlight
    THEN [rowHighlight |-> NullFilter, call |-> NoCall]
    ELSE LET rowHighlight == getFilterFromDatum(tSplits, flatDatum)
         IN  IF rowHighlight = NullFilter
             THEN [rowHighlight |-> rowHighlight, call |-> NoCall]
             ELSE [rowHighlight |-> rowHighlight,
                   call |-> Call("changeHighlight", TableId, Null, rowHighlight)]
onClickRow(tSplits, hl, clk, flatDatum) ==
    IF ~clk.dropHighlight \/ ~clk.changeHighlight
    THEN [rowHighlight |-> NullFilter, call |-> NoCall]
    ELSE LET rowHighlight == getFilterFromDatum(tSplits, flatDatum)
         IN  IF rowHighlight = NullFilter
             THEN [rowHighlight |-> rowHighlight, call |-> NoCall]
             ELSE IF highlightOn(hl, TableId) /\ rowHighlight = hl.delta
             THEN [rowHighlight |-> rowHighlight,
                   call |-> Call("dropHighlight", Null, Null, NullFilter)]
             ELSE [rowHighlight |-> rowHighlight,
                   call |-> Call("changeHighlight", TableId, Null, rowHighlight)]

\* what the clicker's owner does to the essence's highlight on a call
afterCall(hl, call) ==
    CASE call.name = "dropHighlight" -> NoHighlight
      [] call.name = "changeHighlight" -> Highlight(call.owner, call.measure, call.delta)
      [] OTHER -> hl

\* HoverElement: what the mouse is on
CORNER == "CORNER"
HEADER == "HEADER"
ROW == "ROW"
WHITESPACE == "WHITESPACE"
SPACE_LEFT == "SPACE_LEFT"

\* SORT_ON_DIMENSION_PLACEHOLDER: the sort of every split on its own dimension
SORT_ON_DIMENSION_PLACEHOLDER == "__SORT_ON_DIMENSIONS__"

\* the measures the Table has columns for, and the ColumnType of a column
TableMeasures == {"count", "added"}
ColumnTypes == {"CURRENT", "PREVIOUS", "DELTA"}

\* measure.getDerivedName(derivation)
getDerivedName(measure, derivation) ==
    CASE derivation = "PREVIOUS" ->
             (IF measure = "count" THEN "_previous__count" ELSE "_previous__added")
      [] derivation = "DELTA" ->
             (IF measure = "count" THEN "_delta__count" ELSE "_delta__added")
      [] OTHER -> measure

\* PositionHover of the corner or of a header column
PositionHover(element, columnType, measure) ==
    [element |-> element, columnType |-> columnType, measure |-> measure]
HeaderPositions ==
    { PositionHover(CORNER, Null, Null) }
        \cup { PositionHover(HEADER, columnType, measure) :
                 columnType \in ColumnTypes, measure \in TableMeasures }

\* Table.getSortRef
getSortRef(position) ==
    IF position.element = CORNER THEN SORT_ON_DIMENSION_PLACEHOLDER
    ELSE CASE position.columnType = "CURRENT" -> position.measure
           [] position.columnType = "PREVIOUS" ->
                  getDerivedName(position.measure, "PREVIOUS")
           [] position.columnType = "DELTA" ->
                  getDerivedName(position.measure, "DELTA")

\* essence.getCommonSort() yields null when the splits share no sort
NoCommonSort == Sort(Null, Null)

\* a split's sort with a sort on the split's own dimension written as a sort
\* on the placeholder
normalizedSort(split, sort) ==
    IF sort.reference = split.reference
    THEN Sort(SORT_ON_DIMENSION_PLACEHOLDER, sort.direction)
    ELSE sort

\* essence.getCommonSort(): the normalized sort all splits share, or null
getCommonSort(tSplits, sorts) ==
    IF Len(tSplits) = 0 THEN NoCommonSort
    ELSE LET commonSort == normalizedSort(tSplits[1], sorts[1])
         IN  IF \A i \in DOMAIN tSplits : normalizedSort(tSplits[i], sorts[i]) = commonSort
             THEN commonSort
             ELSE NoCommonSort

\* splits.changeSortExpressionFromNormalized(sort): the sorts of the splits
changeSortExpressionFromNormalized(tSplits, sort) ==
    [i \in DOMAIN tSplits |->
        IF sort.reference = SORT_ON_DIMENSION_PLACEHOLDER
        THEN Sort(tSplits[i].reference, sort.direction)
        ELSE sort]

\* Table.getSortExpression
getSortExpression_descending(position, commonSort) ==
    Sort(getSortRef(position), descending)
getSortExpression(position, commonSort) ==
    LET reference == getSortRef(position)
        isDesc == /\ commonSort # NoCommonSort
                  /\ commonSort.reference = reference
                  /\ commonSort.direction = descending
        direction == IF isDesc THEN ascending ELSE descending
    IN  Sort(reference, direction)

\* Table.onClick on the corner or on a header column: the sort expression
\* given to clicker.changeSplits (the empty sort when no call is made) and
\* the sorts of the splits given to it
onClickHeader(tSplits, sorts, hasChangeSplits, position) ==
    IF ~hasChangeSplits THEN [sortExpression |-> EmptySort, sorts |-> sorts]
    ELSE LET sortExpression == getSortExpression(position, getCommonSort(tSplits, sorts))
         IN  [sortExpression |-> sortExpression,
              sorts |-> changeSortExpressionFromNormalized(tSplits, sortExpression)]

\* what the Table remembers of its clicks: whether clicker.changeSplits
\* exists, the element last clicked, the highlight before that click, and
\* the reference and sort expression of the last click on the header
TableClick(hasChangeSplits, element, before, reference, sortExpression) ==
    [changeSplits |-> hasChangeSplits, element |-> element, before |-> before,
     reference |-> reference, sortExpression |-> sortExpression]
NoTableClick == TableClick(FALSE, Null, NoHighlight, Null, EmptySort)

\* the sorts a split of the Table may start with: on its own dimension or
\* on a measure
InitialSorts(split) == { Sort(split.reference, descending), Sort("count", descending) }

\* ------------------------------------------- the LineChart visualization
\* (client/visualizations/line-chart/line-chart.tsx)
\* LineChart.id
LineChartId == "line-chart"
\* the measures the line chart draws a chart for
LineMeasures == {"count", "added"}
\* dragOnMeasure before the first drag (getDefaultState does not set it)
UndefinedMeasureName == "undefined"

\* a plywood range [start, end), and the null a range-valued field may hold
Range(start, end) == [start |-> start, end |-> end]
NullRange == Range(-1, -1)
\* roundDragRange before the first drag (getDefaultState does not set it)
UndefinedRange == Range(-2, -2)
\* dragStartValue: null
NoValue == -1
\* split.bucket: none
NoBucket == 0
\* the bucket of the continuous split
BucketSize == 2

\* state.axisRange: the domain of scaleX
axisRange == Range(0, MaxAxis)
\* scaleX.invert of the mouse positions: over the plot, and over the vertical
\* axis to the right of it (the chart's element is Y_AXIS_WIDTH wider than
\* the range of scaleX)
PointerValues == (0..(MaxAxis - 1)) \cup {MaxAxis + 1}

\* the continuous dimensions a line chart may have
ContinuousDimensions == { [name |-> "time", kind |-> "time"],
                          [name |-> "bytes", kind |-> "number"] }

\* range.contains(value)
contains(range, v) == range.start <= v /\ v < range.end

\* range.intersect(other): null unless the ranges overlap or touch
intersect(range, other) ==
    IF range.start <= other.end /\ other.start <= range.end
    THEN Range(IF range.start > other.start THEN range.start ELSE other.start,
               IF range.end < other.end THEN range.end ELSE other.end)
    ELSE NullRange

\* LineChart.getDragRange(e), e at position x
getDragRange(dragStartValue, x) ==
    LET dragEndValue == IF dragStartValue = x THEN x + 1 ELSE x
        rangeJS == IF dragStartValue < dragEndValue
                   THEN Range(dragStartValue, dragEndValue)
                   ELSE Range(dragEndValue, dragStartValue)
    IN  intersect(rangeJS, axisRange)

\* roundTo(v, roundTo)
roundTo(v, to) == (v \div to) * to

\* a range handed back, and the TypeError of reading a property of null
Floored(range) == [thrown |-> FALSE, range |-> range]
FloorThrown == [thrown |-> TRUE, range |-> NullRange]

\* LineChart.floorRange(dragRange)
floorRange(dragRange, bucket, kind) ==
    IF bucket = NoBucket THEN Floored(dragRange)
    ELSE IF dragRange = NullRange THEN FloorThrown
    ELSE IF kind = "time"
    THEN Floored(Range(roundTo(dragRange.start, bucket),
                       roundTo(dragRange.end, bucket) + bucket))
    ELSE LET startFloored == roundTo(dragRange.start, bucket)
             endFloored == roundTo(dragRange.end, bucket)
         IN  Floored(Range(startFloored,
                           IF endFloored - startFloored < bucket
                           THEN endFloored + bucket ELSE endFloored))

\* essence.getHighlightRange(): the range of the highlight's first clause
getHighlightRange(hl) ==
    IF hl = NoHighlight \/ Len(hl.delta.clauses) = 0 THEN NullRange
    ELSE CHOOSE range \in hl.delta.clauses[1].values : TRUE

\* the drag fields of this.state
DragState(dragStartValue, dragRange, roundDragRange, dragOnMeasure) ==
    [dragStartValue |-> dragStartValue, dragRange |-> dragRange,
     roundDragRange |-> roundDragRange, dragOnMeasure |-> dragOnMeasure]
\* LineChart.getDefaultState
getDefaultState == DragState(NoValue, NullRange, UndefinedRange, UndefinedMeasureName)
\* LineChart.resetDrag
resetDrag == DragState(NoValue, NullRange, NullRange, Null)

\* what a handler leaves behind: this.state, the clicker call made, and
\* whether it ended in a TypeError
Handled(state, clickerCall, thrown) ==
    [state |-> state, call |-> clickerCall, thrown |-> thrown]

\* LineChart.onMouseDown(measure, e), e at position x
onMouseDown(state, scaleX, clk, measure, x) ==
    IF ~scaleX \/ ~clk.dropHighlight \/ ~clk.changeHighlight
    THEN Handled(state, NoCall, FALSE)
    ELSE Handled([state EXCEPT !.dragStartValue = x, !.dragRange = NullRange,
                               !.dragOnMeasure = measure], NoCall, FALSE)

\* LineChart.globalMouseMoveListener(e), e at position x
globalMouseMoveListener(state, bucket, dimension, x) ==
    IF state.dragStartValue = NoValue THEN Handled(state, NoCall, FALSE)
    ELSE LET dragRange == getDragRange(state.dragStartValue, x)
             floored == floorRange(dragRange, bucket, dimension.kind)
         IN  IF floored.thrown THEN Handled(state, NoCall, TRUE)
             ELSE Handled([state EXCEPT !.dragRange = dragRange,
                                        !.roundDragRange = floored.range],
                          NoCall, FALSE)

\* the highlight a finished drag asks for: one clause on the continuous
\* dimension (a TypeError when there is no range to take start and end from)
newHighlight(state, dimension, highlightRange) ==
    IF highlightRange = NullRange THEN Handled(resetDrag, NoCall, TRUE)
    ELSE Handled(resetDrag,
                 Call("changeHighlight", LineChartId, state.dragOnMeasure,
                      Filter(<< FilterClause(dimension.name, dimension.kind,
                                             highlightRange) >>)),
                 FALSE)

\* LineChart.globalMouseUpListener(e), e at position x
globalMouseUpListener(state, hl, bucket, dimension, x) ==
    IF state.dragStartValue = NoValue THEN Handled(state, NoCall, FALSE)
    ELSE LET floored == floorRange(getDragRange(state.dragStartValue, x),
                                   bucket, dimension.kind)
             highlightRange == floored.range
         IN  IF floored.thrown THEN Handled(state, NoCall, TRUE)
             ELSE IF state.dragRange = NullRange /\ highlightOn(hl, LineChartId)
             THEN IF highlightRange = NullRange
                  THEN Handled(resetDrag, NoCall, TRUE)
                  ELSE IF contains(getHighlightRange(hl), highlightRange.start)
                  THEN IF hl.measure = state.dragOnMeasure
                       THEN Handled(resetDrag,
                                    Call("dropHighlight", Null, Null, NullFilter),
                                    FALSE)
                       ELSE Handled(resetDrag,
                                    Call("changeHighlight", LineChartId,
                                         state.dragOnMeasure, hl.delta),
                                    FALSE)
                  ELSE newHighlight(state, dimension, highlightRange)
             ELSE newHighlight(state, dimension, highlightRange)

\* LineChart.globalKeyDownListener(e)
globalKeyDownListener(state, escapeKey) ==
    IF ~escapeKey THEN Handled(state, NoCall, FALSE)
    ELSE IF state.dragStartValue = NoValue THEN Handled(state, NoCall, FALSE)
    ELSE Handled(resetDrag, NoCall, FALSE)

\* ------------------------------------------- the FilterTile component
\* (client/components/filter-tile/filter-tile.tsx)
\* the dimensions of the data cube, named; a filter is the list of the
\* references of its clauses, at most one clause per dimension
FilterDims == {"time", "country", "device"}
\* dataCube.getTimeDimension().name
TimeDimensionName == "time"
Filters == InjectiveSeqs(FilterDims, MaxClauses)

\* DimensionOrigin
FILTER_TILE == "filter-tile"
ElsewhereOrigin == "dimension-list"
\* DragManager.dragging: the dimension dragged and where the drag began
Dragging(dimension, origin) == [dimension |-> dimension, origin |-> origin]
NoDragging == Dragging(Null, Null)

\* a DragPosition: insert or replace, the other one null (-1)
DragPosition(insert, replace) == [insert |-> insert, replace |-> replace]
NoPosition == DragPosition(-1, -1)
isInsert(position) == position.insert # -1
isReplace(position) == position.replace # -1
\* DragPosition.calculateFromOffset(offset, numItems, ...): before an item,
\* on an item, or past the last one
DragPositions(numItems) ==
    { DragPosition(i, -1) : i \in 0..numItems } \cup
    { DragPosition(-1, i) : i \in 0..numItems }

\* list.insert(index, x) / array.splice(index, 0, x), index from 0
InsertAt(list, index, x) ==
    LET at == IF index > Len(list) THEN Len(list) ELSE index
    IN  SubSeq(list, 1, at) \o << x >> \o SubSeq(list, at + 1, Len(list))
\* list.set(index, x), index from 0
SetAt(list, index, x) ==
    IF index >= Len(list) THEN Append(list, x)
    ELSE [list EXCEPT ![index + 1] = x]
\* list.findIndex(y => y = x), from 0; -1 when absent
IndexOf(list, x) ==
    IF \E i \in DOMAIN list : list[i] = x
    THEN (CHOOSE i \in DOMAIN list : list[i] = x /\ \A j \in 1..(i - 1) : list[j] # x) - 1
    ELSE -1
\* list.filterNot((y, i) => y = x && i # index), index from 0
RECURSIVE DropOthers(_, _, _, _)
DropOthers(list, x, index, i) ==
    IF i > Len(list) THEN <<>>
    ELSE IF list[i] = x /\ i - 1 # index THEN DropOthers(list, x, index, i + 1)
    ELSE << list[i] >> \o DropOthers(list, x, index, i + 1)

\* filter.filteredOn(name) / getClauseForDimension / clauseForReference
filteredOn(filter, name) == \E i \in DOMAIN filter : filter[i] = name
\* filter.insertByIndex(index, clause)
insertByIndex(filter, index, clause) ==
    DropOthers(InsertAt(filter, index, clause), clause,
               IF index > Len(filter) THEN Len(filter) ELSE index, 1)
\* filter.replaceByIndex(index, clause)
replaceByIndex(filter, index, clause) ==
    IF Len(filter) = index THEN insertByIndex(filter, index, clause)
    ELSE LET newClauseIndex == IndexOf(filter, clause)
         IN  IF newClauseIndex = -1 THEN SetAt(filter, index, clause)
             ELSE SetAt(SetAt(filter, index, clause), newClauseIndex, filter[index + 1])
\* filter.removeClause(reference)
removeClause(filter, reference) == SelectSeq(filter, LAMBDA c : c # reference)

\* the elements a menu opens on: the item of a dimension (named by it) and
\* the overflow button; the overflow menu a filter menu may be inside of
OverflowButton == "overflow"
OverflowMenu == "overflow-menu"

\* FilterTile's constructor: this.state, with the maxItems the first
\* componentWillReceiveProps computed
InitialFilterTile(maxItems) ==
    [menuOpenOn |-> Null, menuDimension |-> Null, menuInside |-> Null,
     overflowMenuOpenOn |-> Null, dragPosition |-> NoPosition,
     possibleDimension |-> Null, possiblePosition |-> NoPosition,
     maxItems |-> maxItems]

\* FilterTile.getItemBlanks(): the dimensions of the items, in order
getItemBlanks(st, filter) ==
    IF st.possibleDimension # Null /\ st.possiblePosition # NoPosition
    THEN LET possiblePosition ==
                 IF st.possiblePosition.replace = st.maxItems
                 THEN DragPosition(st.possiblePosition.replace, -1)
                 ELSE st.possiblePosition
         IN  IF isInsert(possiblePosition)
             THEN InsertAt(filter, possiblePosition.insert, st.possibleDimension)
             ELSE SetAt(filter, possiblePosition.replace, st.possibleDimension)
    ELSE filter

\* render(): the item of the dimension lies in the overflow
inOverflow(st, filter, dimension) ==
    IndexOf(getItemBlanks(st, filter), dimension) >= st.maxItems
\* render(): this.refs[dimension.name] exists
hasRef(st, filter, dimension) ==
    /\ IndexOf(getItemBlanks(st, filter), dimension) # -1
    /\ (inOverflow(st, filter, dimension) => st.overflowMenuOpenOn # Null)
\* render(): the overflow button exists
hasOverflowButton(st, filter) == Len(getItemBlanks(st, filter)) > st.maxItems

\* FilterTile.openMenu(dimension, target)
openMenu(st, filter, dimension) ==
    [st EXCEPT !.menuOpenOn = dimension,
               !.menuDimension = dimension,
               !.menuInside = IF st.overflowMenuOpenOn # Null
                                 /\ inOverflow(st, filter, dimension)
                              THEN OverflowMenu ELSE Null]

\* FilterTile.closeMenu
closeMenu_keepOverflow(st) ==
    IF st.menuOpenOn = Null THEN st
    ELSE [st EXCEPT !.menuOpenOn = Null, !.menuDimension = Null,
                    !.menuInside = Null, !.possibleDimension = Null,
                    !.possiblePosition = NoPosition]
closeMenu(st) ==
    IF st.menuOpenOn = Null THEN st
    ELSE LET newState == [st EXCEPT !.menuOpenOn = Null, !.menuDimension = Null,
                                    !.menuInside = Null, !.possibleDimension = Null,
                                    !.possiblePosition = NoPosition]
         IN  IF st.possibleDimension # Null
             THEN [newState EXCEPT !.overflowMenuOpenOn = Null]
             ELSE newState

\* FilterTile.closeOverflowMenu
closeOverflowMenu(st) ==
    IF st.overflowMenuOpenOn = Null THEN st
    ELSE [st EXCEPT !.overflowMenuOpenOn = Null]

\* FilterTile.openOverflowMenu(target), target the overflow button
openOverflowMenu(st) ==
    IF st.overflowMenuOpenOn = OverflowButton THEN closeOverflowMenu(st)
    ELSE [st EXCEPT !.overflowMenuOpenOn = OverflowButton]

\* closeMenu() and closeOverflowMenu() in one handler: each reads the
\* this.state the handler began with and the two setStates are merged
closeBoth(st) ==
    LET closed == closeMenu(st)
    IN  IF st.overflowMenuOpenOn = Null THEN closed
        ELSE [closed EXCEPT !.overflowMenuOpenOn = Null]

\* FilterTile.toggleMenu(dimension, target)
toggleMenu(st, filter, dimension) ==
    IF st.menuOpenOn = dimension THEN closeMenu(st)
    ELSE openMenu(st, filter, dimension)

\* FilterTile.openMenuOnDimension(dimension), with the continuation that
\* runs once the overflow menu has been rendered
openMenuOnDimension(st, filter, dimension) ==
    IF hasRef(st, filter, dimension) THEN openMenu(st, filter, dimension)
    ELSE IF hasOverflowButton(st, filter)
    THEN LET opened == openOverflowMenu(st)
         IN  IF hasRef(opened, filter, dimension)
             THEN openMenu(opened, filter, dimension)
             ELSE opened
    ELSE st

\* FilterTile.addDummy(dimension, possiblePosition), with the continuation
\* that runs once the dummy has been rendered
addDummy(st, filter, dimension, possiblePosition) ==
    openMenuOnDimension([st EXCEPT !.possibleDimension = dimension,
                                   !.possiblePosition = possiblePosition],
                        filter, dimension)

\* FilterTile.filterMenuRequest(dimension)
filterMenuRequest(st, filter, dimension) ==
    IF filteredOn(filter, dimension) THEN openMenuOnDimension(st, filter, dimension)
    ELSE addDummy(st, filter, dimension, DragPosition(Len(filter), -1))

\* FilterTile.canDrop()
canDrop(filter, drag) ==
    IF drag.dimension = Null THEN FALSE
    ELSE drag.origin = FILTER_TILE \/ ~filteredOn(filter, drag.dimension)

\* what drop leaves behind: this.state, the filter given to
\* clicker.changeFilter (if called), and how the filter menu was requested
Dropped(st, called, newFilter, menuRequest) ==
    [state |-> st, changeFilter |-> called, filter |-> newFilter,
     menuRequest |-> menuRequest]

\* FilterTile.drop(e), e at dragPosition
drop(st, filter, drag, dragPosition) ==
    IF ~canDrop(filter, drag) THEN Dropped(st, FALSE, filter, "none")
    ELSE LET cleared == [st EXCEPT !.dragPosition = NoPosition]
             dimension == drag.dimension
         IN  IF ~filteredOn(filter, dimension)
             THEN LET tryingToReplaceTime ==
                          /\ dragPosition.replace # -1
                          /\ dragPosition.replace < Len(filter)
                          /\ filter[dragPosition.replace + 1] = TimeDimensionName
                  IN  IF ~tryingToReplaceTime
                      THEN Dropped(addDummy(cleared, filter, dimension, dragPosition),
                                   FALSE, filter, "none")
                      ELSE Dropped(cleared, FALSE, filter, "none")
             ELSE LET newFilter ==
                          IF isReplace(dragPosition)
                          THEN replaceByIndex(filter, dragPosition.replace, dimension)
                          ELSE insertByIndex(filter, dragPosition.insert, dimension)
                      newFilterSame == filter = newFilter
                  IN  IF drag.origin # FILTER_TILE
                      THEN IF newFilterSame
                           THEN Dropped(filterMenuRequest(cleared, filter, dimension),
                                        FALSE, filter, "immediate")
                           ELSE Dropped(cleared, TRUE, newFilter, "delayed")
                      ELSE Dropped(cleared, ~newFilterSame, newFilter, "none")

\* FilterTile.dragEnter(e) and dragOver(e), e at dragPosition
dragOver(st, filter, drag, dragPosition) ==
    IF ~canDrop(filter, drag) THEN st
    ELSE [st EXCEPT !.dragPosition = dragPosition]

\* FilterTile.dragLeave()
dragLeave(st) == [st EXCEPT !.dragPosition = NoPosition]

\* ------------------------------------------- the SplitMenu component
\* (client/components/split-menu/split-menu.tsx)
\* a Bucket: a Duration (time), a number of units (number), or null
DurationBucket(duration) == [duration |-> duration, size |-> 0]
NumberBucket(size) == [duration |-> Null, size |-> size]
NullBucket == [duration |-> Null, size |-> 0]

\* the granularity strings the picker may hand to saveGranularity, by the
\* kind of the dimension: presets, a typed number with a leading zero, and
\* text that is no granularity
Granularities(kind) ==
    CASE kind = "time" -> {"P1D", "PT1H", "bad"}
      [] kind = "number" -> {"10", "010", "20", "bad"}
      [] OTHER -> {}

\* isGranularityValid(kind, granularity)
isGranularityValid(kind, granularity) ==
    CASE kind = "time" -> granularity \in {"P1D", "PT1H"}
      [] kind = "number" -> granularity \in {"10", "010", "20"}
      [] OTHER -> TRUE

\* granularityToString(bucket)
granularityToString(bucket) ==
    IF bucket.duration # Null THEN bucket.duration
    ELSE CASE bucket.size = 10 -> "10"
           [] bucket.size = 20 -> "20"
           [] OTHER -> "0"

\* parseInt(granularity, 10)
parseInt(granularity) ==
    CASE granularity \in {"10", "010"} -> 10
      [] granularity = "20" -> 20
      [] OTHER -> 0

\* Colors: a legend on a dimension with so many values, or null
Colors(dimension, limit) == [dimension |-> dimension, limit |-> limit]
NoColors == Colors(Null, 0)

\* new Split({ type, reference, limit, sort, bucket })
Split(type, reference, limit, sort, bucket) ==
    [type |-> type, reference |-> reference, limit |-> limit, sort |-> sort,
     bucket |-> bucket]

\* the dimension a split menu is opened for, by kind
MenuDimension(kind) ==
    CASE kind = "time" -> [name |-> "time", kind |-> "time"]
      [] kind = "number" -> [name |-> "bytes", kind |-> "number"]
      [] OTHER -> [name |-> "country", kind |-> "string"]

\* the buckets a split on a dimension of that kind may have
Buckets(kind) ==
    CASE kind = "time" -> {NullBucket, DurationBucket("P1D")}
      [] kind = "number" -> {NullBucket, NumberBucket(10)}
      [] OTHER -> {NullBucket}

\* the props of a SplitMenu: the dimension, its split, and essence.colors
SplitMenuProps ==
    UNION { [dimension : {MenuDimension(kind)},
             split : { Split(kind, MenuDimension(kind).name, limit, sort, bucket) :
                         limit \in LimitValues, sort \in {EmptySort, UserSort},
                         bucket \in Buckets(kind) },
             colors : {NoColors, Colors(MenuDimension(kind).name, 5),
                       Colors("device", 5)}] : kind \in Kinds }

\* SplitMenu.componentWillMount: this.state
componentWillMount(props) ==
    LET colorsDimensionMatch ==
            props.colors # NoColors /\ props.colors.dimension = props.split.reference
    IN  [reference |-> props.split.reference,
         sort |-> props.split.sort,
         limit |-> props.split.limit,
         granularity |-> IF props.split.bucket = NullBucket THEN Null
                         ELSE granularityToString(props.split.bucket),
         colors |-> IF colorsDimensionMatch THEN props.colors ELSE NoColors]

\* SplitMenu.constructGranularity
constructGranularity(props, st) ==
    CASE props.dimension.kind = "time" -> DurationBucket(st.granularity)
      [] props.dimension.kind = "number" -> NumberBucket(parseInt(st.granularity))
      [] OTHER -> NullBucket

\* SplitMenu.constructSplitCombine
constructSplitCombine(props, st) ==
    Split(props.split.type, st.reference, st.limit, st.sort,
          constructGranularity(props, st))

\* SplitMenu.validate
validate_colorsIgnored(props, st) ==
    IF ~isGranularityValid(props.dimension.kind, st.granularity) THEN FALSE
    ELSE props.split # constructSplitCombine(props, st)
validate(props, st) ==
    IF ~isGranularityValid(props.dimension.kind, st.granularity) THEN FALSE
    ELSE \/ props.split # constructSplitCombine(props, st)
         \/ (props.colors # NoColors /\ props.colors # st.colors)

\* what a button of the menu leaves behind: the split and the colors given
\* to clicker.changeSplits (if called) and whether onClose was called
Pressed(changeSplits, split, cols, onClose) ==
    [changeSplits |-> changeSplits, split |-> split, colors |-> cols,
     onClose |-> onClose]
NothingPressed == Pressed(FALSE, Split(Null, Null, NoLimit, EmptySort, NullBucket),
                          NoColors, FALSE)

\* SplitMenu.onOkClick
onOkClick(props, st) ==
    IF ~validate(props, st) THEN NothingPressed
    ELSE Pressed(TRUE, constructSplitCombine(props, st), st.colors, TRUE)

\* SplitMenu.onCancelClick
onCancelClick == [NothingPressed EXCEPT !.onClose = TRUE]

\* SplitMenu.globalKeyDownListener
globalKeyDownListenerMenu(props, st, enterKey) ==
    IF enterKey THEN onOkClick(props, st) ELSE NothingPressed

\* ------------------------------------------- the PinboardPanel component
\* (client/components/pinboard-panel/pinboard-panel.tsx)
\* dimension.kind of the dimension of that name
kindOfDimension(dimension) ==
    IF dimension = TimeDimensionName THEN "time" ELSE "string"

\* the panel: this.state.dragOver, props.essence.pinnedDimensions, and
\* whether props.clicker has the optional method pin
PinboardPanel(isDragOver, pinnedDimensions, hasPin) ==
    [dragOver |-> isDragOver, pinnedDimensions |-> pinnedDimensions, pin |-> hasPin]

\* PinboardPanel.canDrop
pinboardCanDrop(panel, drag) ==
    /\ drag.dimension # Null
    /\ kindOfDimension(drag.dimension) = "string"
    /\ drag.dimension \notin panel.pinnedDimensions

\* what a handler of the panel leaves behind: the panel and whether the
\* handler threw
PanelHandled(panel, thrown) == [panel |-> panel, thrown |-> thrown]

\* PinboardPanel.dragEnter
pinboardDragEnter(panel, drag) ==
    IF ~pinboardCanDrop(panel, drag) THEN PanelHandled(panel, FALSE)
    ELSE PanelHandled([panel EXCEPT !.dragOver = TRUE], FALSE)

\* PinboardPanel.dragOver
pinboardDragOver(panel, drag) == PanelHandled(panel, FALSE)

\* PinboardPanel.dragLeave
pinboardDragLeave(panel, drag) ==
    IF ~pinboardCanDrop(panel, drag) THEN PanelHandled(panel, FALSE)
    ELSE PanelHandled([panel EXCEPT !.dragOver = FALSE], FALSE)

\* PinboardPanel.drop; clicker.pin adds the dimension to the pinned ones,
\* and a clicker without pin makes the call throw
pinboardDrop(panel, drag) ==
    IF ~pinboardCanDrop(panel, drag) THEN PanelHandled(panel, FALSE)
    ELSE IF ~panel.pin THEN PanelHandled(panel, TRUE)
    ELSE PanelHandled([panel EXCEPT
                          !.pinnedDimensions = @ \cup {drag.dimension},
                          !.dragOver = FALSE], FALSE)

\* ------------------------------------------------------------------- state
VARIABLES
    splits,                   \* the context's splits
    dataCube,                 \* the context's data cube
    colors,                   \* the context's colors (Null: none)
    isSelectedVisualization,  \* whether the Table is the selected visualization
    series,                   \* the context's series list
    supportedMax,             \* most splits the visualization supports
    resolution,               \* what the evaluator returned (or that it threw)
    tested,                   \* predicates the evaluator tested, in order
    ran,                      \* the action the evaluator ran
    pc,                       \* "ready": not evaluated yet; "done": evaluated
    applied,                  \* the adjustments applied so far: the action each
                              \* came from and the colors it was applied to
    cube,                     \* the data cube given to a Resolutions helper
    helper,                   \* the helper that was called (Null: none yet)
    suggestions,              \* what the helper handed back
    tableSplits,              \* essence.splits of the Table visualization
    highlight,                \* essence.highlight
    clicker,                  \* which of the clicker's methods exist
    row,                      \* the row last clicked
    rowHighlight,             \* the filter built from it (NullFilter: none)
    call,                     \* the clicker call the last click made
    clicks,                   \* whether a row was clicked yet
    lineChartState,           \* the drag fields of the LineChart's this.state
    lineChartSetup,           \* its cached scaleX and continuousDimension, and
                              \* the bucket of the essence's continuous split
    pointer,                  \* where the mouse is, in values of the axis
    lineChartLog,             \* the last event handled, whether its handler
                              \* threw, whether a drag was on, and the counts of
                              \* drags ended by mouseup and of clicker calls
    filterTile,               \* the FilterTile's this.state
    filter,                   \* essence.filter, as the references of its clauses
    dragging,                 \* DragManager.dragging
    filterTileLog,            \* whether the last event on the tile was a
                              \* closeMenu or a drop, the drop's position,
                              \* whether the handler called clicker.changeFilter,
                              \* how it requested the filter menu and whether it
                              \* closed the overflow menu
    splitMenuProps,           \* the SplitMenu's props: dimension, split, colors
    splitMenu,                \* whether it is mounted, and its this.state
    splitMenuLog,             \* the last event on the menu and what its
                              \* handler called
    tableSorts,               \* the sorts of the Table's splits, in split order
    tableClick,               \* whether clicker.changeSplits exists, and the
                              \* element, highlight and sort of the last clicks
    pinboardPanel,            \* the PinboardPanel's dragOver, the pinned
                              \* dimensions and whether the clicker can pin
    pinboardLog               \* the last drag event on the panel and whether
                              \* its handler threw

tableVars == << splits, dataCube, colors, isSelectedVisualization, series,
                supportedMax, resolution, tested, ran, pc, applied >>
resolutionsVars == << cube, helper, suggestions >>
clickVars ==
    << tableSplits, highlight, clicker, row, rowHighlight, call, clicks, tableSorts,
       tableClick >>

lineChartVars == << lineChartState, lineChartSetup, pointer, lineChartLog >>
filterTileVars == << filterTile, filter, filterTileLog >>
splitMenuVars == << splitMenuProps, splitMenu, splitMenuLog >>
pinboardVars == << pinboardPanel, pinboardLog >>
componentVars ==
    << lineChartVars, filterTileVars, dragging, splitMenuVars, pinboardVars >>

vars == << tableVars, resolutionsVars, clickVars, componentVars >>

context == [splits |-> splits, dataCube |-> dataCube, colors |-> colors,
            isSelectedVisualization |-> isSelectedVisualization,
            series |-> series, supportedMax |-> supportedMax]

\* no Resolutions helper is in play
ResolutionsIdle ==
    /\ cube = [dimensions |-> <<>>, measures |-> <<>>,
               defaultSelectedMeasures |-> [declared |-> FALSE, names |-> <<>>]]
    /\ helper = Null
    /\ suggestions = Returned(<<>>)

\* the Table visualization is not in play
ClickIdle ==
    /\ tableSplits = <<>>
    /\ highlight = NoHighlight
    /\ clicker = [dropHighlight |-> FALSE, changeHighlight |-> FALSE]
    /\ row = NoRow
    /\ rowHighlight = NullFilter
    /\ call = NoCall
    /\ clicks = FALSE
    /\ tableSorts = <<>>
    /\ tableClick = NoTableClick

\* nothing has happened on the line chart
NoLineChartLog == [event |-> Null, thrown |-> FALSE, dragging |-> FALSE,
                   ended |-> 0, called |-> 0]

\* the LineChart visualization is not in play
LineChartIdle ==
    /\ lineChartState = getDefaultState
    /\ lineChartSetup = [scaleX |-> FALSE,
                         continuousDimension |-> [name |-> "time", kind |-> "time"],
                         bucket |-> NoBucket]
    /\ pointer = 0
    /\ lineChartLog = NoLineChartLog

\* nothing has happened on the filter tile
NoFilterTileLog == [event |-> Null, position |-> NoPosition,
                    changeFilter |-> FALSE, menuRequest |-> "none",
                    overflowClosed |-> FALSE]

\* the FilterTile is not in play
FilterTileIdle ==
    /\ filterTile = InitialFilterTile(1)
    /\ filter = <<>>
    /\ filterTileLog = NoFilterTileLog

\* the SplitMenu is not in play
SplitMenuIdle ==
    /\ splitMenuProps = CHOOSE props \in SplitMenuProps : TRUE
    /\ splitMenu = [open |-> FALSE, state |-> componentWillMount(splitMenuProps)]
    /\ splitMenuLog = [event |-> Null, pressed |-> NothingPressed]

\* nothing has happened on the pinboard panel
NoPinboardLog == [event |-> Null, thrown |-> FALSE]

\* the PinboardPanel is not in play
PinboardIdle ==
    /\ pinboardPanel = PinboardPanel(FALSE, {}, FALSE)
    /\ pinboardLog = NoPinboardLog

\* no component but the ones a specification is about is in play
ComponentsIdle ==
    /\ LineChartIdle
    /\ FilterTileIdle
    /\ dragging = NoDragging
    /\ SplitMenuIdle
    /\ PinboardIdle

Init ==
    /\ ResolutionsIdle
    /\ ClickIdle
    /\ ComponentsIdle
    /\ splits \in SplitSeqs
    /\ dataCube \in DataCubes
    /\ colors \in ColorValues
    /\ isSelectedVisualization \in BOOLEAN
    \* the Table's rules do not read the series list: it is varied for the
    \* contexts without splits only
    /\ series \in (IF splits = <<>> THEN SeriesValues ELSE { <<>> })
    /\ supportedMax \in 1..MaxSupported
    /\ resolution = NoResolution
    /\ tested = <<>>
    /\ ran = Null
    /\ pc = "ready"
    /\ applied = <<>>

\* the evaluation step with the fallback's `colors = null` written to the context
Evaluate_mutating ==
    /\ pc = "ready"
    /\ LET r == rulesEvaluator(context)
       IN  /\ resolution' = r.resolution
           /\ tested' = r.tested
           /\ ran' = r.ran
           /\ colors' = IF r.ran = "otherwise" THEN Null ELSE colors
    /\ pc' = "done"
    /\ UNCHANGED << splits, dataCube, isSelectedVisualization, series,
                    supportedMax, applied >>
    /\ UNCHANGED << resolutionsVars, clickVars, componentVars >>

\* TABLE_MANIFEST.evaluateRules(context)
Evaluate ==
    /\ pc = "ready"
    /\ LET r == rulesEvaluator(context)
       IN  /\ resolution' = r.resolution
           /\ tested' = r.tested
           /\ ran' = r.ran
    /\ pc' = "done"
    /\ UNCHANGED << splits, dataCube, colors, isSelectedVisualization, series,
                    supportedMax, applied >>
    /\ UNCHANGED << resolutionsVars, clickVars, componentVars >>

Next == Evaluate

Spec == Init /\ [][Next]_vars

\* the caller applies the adjustment of an AUTOMATIC verdict and the
\* adjusted state is then evaluated again
ApplyAdjustment ==
    /\ pc = "done"
    /\ resolution.state = "AUTOMATIC"
    /\ Len(applied) < MaxRounds
    /\ splits' = applyAdjustment(context, resolution.adjustment).splits
    /\ colors' = applyAdjustment(context, resolution.adjustment).colors
    /\ applied' = Append(applied, [ran |-> ran, colors |-> colors])
    /\ resolution' = NoResolution
    /\ tested' = <<>>
    /\ ran' = Null
    /\ pc' = "ready"
    /\ UNCHANGED << dataCube, isSelectedVisualization, series, supportedMax >>
    /\ UNCHANGED << resolutionsVars, clickVars, componentVars >>

\* evaluate, apply, evaluate again: the contexts without series
InitApply == Init /\ series = <<>>

NextApply == Evaluate \/ ApplyAdjustment

SpecApply == InitApply /\ [][NextApply]_vars

\* ------------------------------------------- the Resolutions helpers called
\* the Table evaluator is not in play
TableIdle ==
    /\ splits = <<>>
    /\ dataCube = CHOOSE dc \in DataCubes : TRUE
    /\ colors = Null
    /\ isSelectedVisualization = FALSE
    /\ series = <<>>
    /\ supportedMax = 1
    /\ resolution = NoResolution
    /\ tested = <<>>
    /\ ran = Null
    /\ pc = "idle"
    /\ applied = <<>>

InitResolutions ==
    /\ TableIdle
    /\ ClickIdle
    /\ ComponentsIdle
    /\ cube \in ResolutionCubes
    /\ helper = Null
    /\ suggestions = Returned(<<>>)

CallSomeDimensions ==
    /\ helper = Null
    /\ helper' = "someDimensions"
    /\ suggestions' = someDimensions(cube)
    /\ UNCHANGED << cube, tableVars, clickVars, componentVars >>

CallDefaultSelectedMeasures ==
    /\ helper = Null
    /\ helper' = "defaultSelectedMeasures"
    /\ suggestions' = defaultSelectedMeasures(cube)
    /\ UNCHANGED << cube, tableVars, clickVars, componentVars >>

CallFirstMeasure ==
    /\ helper = Null
    /\ helper' = "firstMeasure"
    /\ suggestions' = firstMeasure(cube)
    /\ UNCHANGED << cube, tableVars, clickVars, componentVars >>

NextResolutions == CallSomeDimensions \/ CallDefaultSelectedMeasures \/ CallFirstMeasure

SpecResolutions == InitResolutions /\ [][NextResolutions]_vars

\* ------------------------------------------- clicks on the Table's rows
InitClick ==
    /\ TableIdle
    /\ ResolutionsIdle
    /\ ComponentsIdle
    /\ tableSplits \in TableSplitSeqs
    /\ highlight \in {NoHighlight, OtherHighlight}
    /\ clicker \in [dropHighlight : BOOLEAN, changeHighlight : BOOLEAN]
    /\ row = NoRow
    /\ rowHighlight = NullFilter
    /\ call = NoCall
    /\ clicks = FALSE
    /\ tableSorts = [i \in DOMAIN tableSplits |-> Sort(tableSplits[i].reference, descending)]
    /\ tableClick = NoTableClick

\* Table.onClick with the mouse on a row, and the clicker's effect
ClickRow ==
    \E flatDatum \in FlatData :
        LET r == onClickRow(tableSplits, highlight, clicker, flatDatum)
        IN  /\ row' = flatDatum
            /\ rowHighlight' = r.rowHighlight
            /\ call' = r.call
            /\ highlight' = afterCall(highlight, r.call)
            /\ clicks' = TRUE
            /\ tableClick' = [tableClick EXCEPT !.element = ROW, !.before = highlight]
            /\ UNCHANGED << tableSplits, clicker, tableSorts, tableVars, resolutionsVars,
                            componentVars >>

\* Table.onClick with the mouse on no row, column or corner
ClickWhitespace ==
    \E element \in {WHITESPACE, SPACE_LEFT} :
        /\ call' = NoCall
        /\ tableClick' = [tableClick EXCEPT !.element = element, !.before = highlight]
        /\ UNCHANGED << tableSplits, highlight, clicker, row, rowHighlight, clicks,
                        tableSorts, tableVars, resolutionsVars, componentVars >>

NextClick == ClickRow \/ ClickWhitespace

SpecClick == InitClick /\ [][NextClick]_vars

\* ------------------------------------------- clicks on the Table's header
\* the Table is shown with at least one split: without splits its rules
\* ask for a manual selection
InitHeaderClick ==
    /\ TableIdle
    /\ ResolutionsIdle
    /\ ComponentsIdle
    /\ tableSplits \in TableSplitSeqs \ { <<>> }
    /\ highlight = NoHighlight
    /\ clicker = [dropHighlight |-> FALSE, changeHighlight |-> FALSE]
    /\ row = NoRow
    /\ rowHighlight = NullFilter
    /\ call = NoCall
    /\ clicks = FALSE
    /\ tableSorts \in { sorts \in [DOMAIN tableSplits ->
                                      UNION { InitialSorts(sp) : sp \in TableSplitValues }] :
                            \A i \in DOMAIN tableSplits :
                                sorts[i] \in InitialSorts(tableSplits[i]) }
    /\ \E hasChangeSplits \in BOOLEAN :
           tableClick = [NoTableClick EXCEPT !.changeSplits = hasChangeSplits]

\* Table.onClick with the mouse on the corner or on a header column, and
\* the clicker's effect on the splits
ClickHeader ==
    \E position \in HeaderPositions :
        LET r == onClickHeader(tableSplits, tableSorts, tableClick.changeSplits, position)
        IN  /\ tableSorts' = r.sorts
            /\ call' = NoCall
            /\ tableClick' = TableClick(tableClick.changeSplits, position.element, highlight,
                                        getSortRef(position), r.sortExpression)
            /\ UNCHANGED << tableSplits, highlight, clicker, row, rowHighlight, clicks,
                            tableVars, resolutionsVars, componentVars >>

NextHeaderClick == ClickHeader

SpecHeaderClick == InitHeaderClick /\ [][NextHeaderClick]_vars

\* ------------------------------------------- mouse and keys on the LineChart
\* no row of the Table has been clicked
RowsIdle ==
    /\ tableSplits = <<>>
    /\ row = NoRow
    /\ rowHighlight = NullFilter
    /\ clicks = FALSE
    /\ tableSorts = <<>>
    /\ tableClick = NoTableClick

\* a highlight the Table owns on the continuous dimension
TableHighlight(dimension) ==
    Highlight(TableId, Null,
              Filter(<< FilterClause(dimension.name, dimension.kind,
                                     Range(0, BucketSize)) >>))

InitLineChart ==
    /\ TableIdle
    /\ ResolutionsIdle
    /\ RowsIdle
    /\ lineChartSetup \in [scaleX : BOOLEAN,
                           continuousDimension : ContinuousDimensions,
                           bucket : {NoBucket, BucketSize}]
    /\ highlight \in {NoHighlight, TableHighlight(lineChartSetup.continuousDimension)}
    /\ clicker \in [dropHighlight : BOOLEAN, changeHighlight : BOOLEAN]
    /\ call = NoCall
    /\ lineChartState = getDefaultState
    /\ pointer = 0
    /\ lineChartLog = NoLineChartLog
    /\ FilterTileIdle
    /\ dragging = NoDragging
    /\ SplitMenuIdle
    /\ PinboardIdle

\* a handler has run on `event`: its state, its clicker call and the
\* clicker's effect on the essence
LineChartHandled(event, r) ==
    /\ lineChartState' = r.state
    /\ call' = r.call
    /\ highlight' = afterCall(highlight, r.call)
    /\ lineChartLog' =
          [event |-> event,
           thrown |-> r.thrown,
           dragging |-> lineChartState.dragStartValue # NoValue,
           ended |-> IF event = "mouseup" /\ lineChartState.dragStartValue # NoValue
                     THEN lineChartLog.ended + 1 ELSE lineChartLog.ended,
           called |-> IF r.call # NoCall
                      THEN lineChartLog.called + 1 ELSE lineChartLog.called]
    /\ UNCHANGED << lineChartSetup, clicker, tableVars, resolutionsVars,
                    tableSplits, row, rowHighlight, clicks, tableSorts, tableClick,
                    filterTileVars, dragging, splitMenuVars, pinboardVars >>

\* mousedown on the chart of a measure
MouseDown ==
    /\ lineChartLog.ended < MaxDrags
    /\ \E measure \in LineMeasures, x \in PointerValues :
          /\ pointer' = x
          /\ LineChartHandled("mousedown",
                 onMouseDown(lineChartState, lineChartSetup.scaleX, clicker, measure, x))

\* mousemove anywhere in the window
MouseMove ==
    /\ lineChartLog.ended < MaxDrags
    /\ \E x \in PointerValues \ {pointer} :
          /\ pointer' = x
          /\ LineChartHandled("mousemove",
                 globalMouseMoveListener(lineChartState, lineChartSetup.bucket,
                                         lineChartSetup.continuousDimension, x))

\* mouseup anywhere in the window, where the pointer is
MouseUp ==
    /\ lineChartLog.ended < MaxDrags
    /\ pointer' = pointer
    /\ LineChartHandled("mouseup",
           globalMouseUpListener(lineChartState, highlight, lineChartSetup.bucket,
                                 lineChartSetup.continuousDimension, pointer))

\* keydown anywhere in the window
KeyDown ==
    /\ lineChartLog.ended < MaxDrags
    /\ pointer' = pointer
    /\ \E escapeKey \in BOOLEAN :
          LineChartHandled(IF escapeKey THEN "escape" ELSE "keydown",
                           globalKeyDownListener(lineChartState, escapeKey))

NextLineChart == MouseDown \/ MouseMove \/ MouseUp \/ KeyDown

SpecLineChart == InitLineChart /\ [][NextLineChart]_vars

\* ------------------------------------------- events on the FilterTile
InitFilterTile ==
    /\ TableIdle
    /\ ResolutionsIdle
    /\ ClickIdle
    /\ LineChartIdle
    /\ SplitMenuIdle
    /\ PinboardIdle
    /\ filterTile \in { InitialFilterTile(maxItems) : maxItems \in 1..MaxItems }
    /\ filter \in Filters
    /\ dragging = NoDragging
    /\ filterTileLog = NoFilterTileLog

\* an event the log does not tell from others
OtherEvent == "other"

\* a handler of the tile has run on `event`
FilterTileHandled(event, position, st, called, newFilter, menuRequest) ==
    /\ filterTile' = st
    /\ filter' = IF called THEN newFilter ELSE filter
    /\ filterTileLog' = [event |-> event, position |-> position,
                         changeFilter |-> called, menuRequest |-> menuRequest,
                         overflowClosed |-> filterTile.overflowMenuOpenOn # Null
                                            /\ st.overflowMenuOpenOn = Null]
    /\ UNCHANGED << tableVars, resolutionsVars, clickVars, lineChartVars,
                    splitMenuVars, pinboardVars >>

\* click on the item of a clause
ClickDimension ==
    \E dimension \in FilterDims :
        /\ filteredOn(filter, dimension)
        /\ hasRef(filterTile, filter, dimension)
        /\ FilterTileHandled(OtherEvent, NoPosition,
                             toggleMenu(filterTile, filter, dimension),
                             FALSE, filter, "none")
        /\ UNCHANGED dragging

\* click on the overflow button
OverflowButtonClick ==
    /\ hasOverflowButton(filterTile, filter)
    /\ FilterTileHandled(OtherEvent, NoPosition,
                         openOverflowMenu(filterTile), FALSE, filter, "none")
    /\ UNCHANGED dragging

\* the overflow menu's onClose
CloseOverflowMenu ==
    /\ filterTile.overflowMenuOpenOn # Null
    /\ FilterTileHandled(OtherEvent, NoPosition,
                         closeOverflowMenu(filterTile), FALSE, filter, "none")
    /\ UNCHANGED dragging

\* closeMenu, the filter menu's onClose
CloseMenu ==
    /\ FilterTileHandled("closeMenu", NoPosition, closeMenu(filterTile),
                         FALSE, filter, "none")
    /\ UNCHANGED dragging

\* appendFilter(dimension), the add tile's onSelect
AppendFilter ==
    \E dimension \in FilterDims :
        /\ ~filteredOn(filter, dimension)
        /\ FilterTileHandled(OtherEvent, NoPosition,
                             addDummy(filterTile, filter, dimension,
                                      DragPosition(Len(filter), -1)),
                             FALSE, filter, "none")
        /\ UNCHANGED dragging

\* removeFilter(itemBlank), the remove button of an item
RemoveFilter ==
    \E dimension \in FilterDims \ {TimeDimensionName} :
        /\ hasRef(filterTile, filter, dimension)
        /\ FilterTileHandled(OtherEvent, NoPosition, closeBoth(filterTile),
                             filteredOn(filter, dimension),
                             removeClause(filter, dimension), "none")
        /\ UNCHANGED dragging

\* dragStart(dimension, clause) on the item of a clause
DragStart ==
    \E dimension \in FilterDims :
        /\ dragging = NoDragging
        /\ filteredOn(filter, dimension)
        /\ hasRef(filterTile, filter, dimension)
        /\ dragging' = Dragging(dimension, FILTER_TILE)
        /\ FilterTileHandled(OtherEvent, NoPosition, closeBoth(filterTile),
                             FALSE, filter, "none")

\* a drag of a dimension begins outside the tile
DragStartElsewhere ==
    \E dimension \in FilterDims :
        /\ dragging = NoDragging
        /\ dragging' = Dragging(dimension, ElsewhereOrigin)
        /\ FilterTileHandled(OtherEvent, NoPosition, filterTile,
                             FALSE, filter, "none")

\* the drag ends
DragEnd ==
    /\ dragging # NoDragging
    /\ dragging' = NoDragging
    /\ FilterTileHandled(OtherEvent, NoPosition, filterTile, FALSE, filter, "none")

\* dragEnter(e) / dragOver(e)
DragOver ==
    \E dragPosition \in DragPositions(Len(filter)) :
        /\ FilterTileHandled(OtherEvent, NoPosition,
                             dragOver(filterTile, filter, dragging, dragPosition),
                             FALSE, filter, "none")
        /\ UNCHANGED dragging

\* dragLeave()
DragLeave ==
    /\ FilterTileHandled(OtherEvent, NoPosition, dragLeave(filterTile),
                         FALSE, filter, "none")
    /\ UNCHANGED dragging

\* drop(e)
Drop ==
    \E dragPosition \in DragPositions(Len(filter)) :
        LET r == drop(filterTile, filter, dragging, dragPosition)
        IN  /\ FilterTileHandled("drop", dragPosition, r.state, r.changeFilter,
                                 r.filter, r.menuRequest)
            /\ UNCHANGED dragging

NextFilterTile ==
    \/ ClickDimension \/ OverflowButtonClick \/ CloseOverflowMenu \/ CloseMenu
    \/ AppendFilter \/ RemoveFilter \/ DragStart \/ DragStartElsewhere \/ DragEnd
    \/ DragOver \/ DragLeave \/ Drop

SpecFilterTile == InitFilterTile /\ [][NextFilterTile]_vars

\* ------------------------------------------- buttons and keys of the SplitMenu
InitSplitMenu ==
    /\ TableIdle
    /\ ResolutionsIdle
    /\ ClickIdle
    /\ LineChartIdle
    /\ FilterTileIdle
    /\ dragging = NoDragging
    /\ PinboardIdle
    /\ splitMenuProps \in SplitMenuProps
    /\ splitMenu = [open |-> TRUE, state |-> componentWillMount(splitMenuProps)]
    /\ splitMenuLog = [event |-> Null, pressed |-> NothingPressed]

\* a handler of the mounted menu has run on `event`; onClose unmounts it
SplitMenuHandled(event, st, pressed) ==
    /\ splitMenu.open
    /\ splitMenu' = [open |-> ~pressed.onClose, state |-> st]
    /\ splitMenuLog' = [event |-> event, pressed |-> pressed]
    /\ UNCHANGED << splitMenuProps, tableVars, resolutionsVars, clickVars,
                    lineChartVars, filterTileVars, dragging, pinboardVars >>

\* saveGranularity(granularity)
SaveGranularity ==
    \E granularity \in Granularities(splitMenuProps.dimension.kind) :
        SplitMenuHandled("save", [splitMenu.state EXCEPT !.granularity = granularity],
                         NothingPressed)

\* saveSort(sort)
SaveSort ==
    \E sort \in {Sort(splitMenuProps.dimension.name, ascending), UserSort} :
        SplitMenuHandled("save", [splitMenu.state EXCEPT !.sort = sort], NothingPressed)

\* saveLimit(limit, colors)
SaveLimit ==
    \E limit \in {NoLimit, 5, 10}, withColors \in BOOLEAN :
        SplitMenuHandled("save",
            [splitMenu.state EXCEPT
                !.limit = limit,
                !.colors = IF withColors /\ limit # NoLimit
                           THEN Colors(splitMenuProps.dimension.name, limit)
                           ELSE NoColors],
            NothingPressed)

\* click on OK
OkClick ==
    SplitMenuHandled("ok", splitMenu.state, onOkClick(splitMenuProps, splitMenu.state))

\* keydown anywhere in the window
MenuKeyDown ==
    \E enterKey \in BOOLEAN :
        SplitMenuHandled(IF enterKey THEN "enter" ELSE "key", splitMenu.state,
                         globalKeyDownListenerMenu(splitMenuProps, splitMenu.state,
                                                   enterKey))

\* click on Cancel
CancelClick == SplitMenuHandled("cancel", splitMenu.state, onCancelClick)

NextSplitMenu ==
    SaveGranularity \/ SaveSort \/ SaveLimit \/ OkClick \/ MenuKeyDown \/ CancelClick

SpecSplitMenu == InitSplitMenu /\ [][NextSplitMenu]_vars

\* ------------------------------------------- drags over the PinboardPanel
InitPinboard ==
    /\ TableIdle
    /\ ResolutionsIdle
    /\ ClickIdle
    /\ LineChartIdle
    /\ FilterTileIdle
    /\ SplitMenuIdle
    /\ dragging = NoDragging
    /\ pinboardPanel \in { PinboardPanel(FALSE, pinnedDimensions, hasPin) :
                             pinnedDimensions \in SUBSET FilterDims, hasPin \in BOOLEAN }
    /\ pinboardLog = NoPinboardLog

\* a handler of the panel has run on `event`
PinboardHandled(event, r) ==
    /\ pinboardPanel' = r.panel
    /\ pinboardLog' = [event |-> event, thrown |-> r.thrown]
    /\ UNCHANGED << dragging, tableVars, resolutionsVars, clickVars, lineChartVars,
                    filterTileVars, splitMenuVars >>

\* a tile begins the drag of a dimension (DragManager.setDragDimension)
DimensionDragStart ==
    \E dimension \in FilterDims :
        /\ dragging = NoDragging
        /\ dragging' = Dragging(dimension, ElsewhereOrigin)
        /\ UNCHANGED << pinboardVars, tableVars, resolutionsVars, clickVars,
                        lineChartVars, filterTileVars, splitMenuVars >>

\* the drag ends, wherever the mouse is (dragend)
DimensionDragEnd ==
    /\ dragging # NoDragging
    /\ dragging' = NoDragging
    /\ UNCHANGED << pinboardVars, tableVars, resolutionsVars, clickVars,
                    lineChartVars, filterTileVars, splitMenuVars >>

\* dragenter on the panel
PinboardDragEnter ==
    /\ dragging # NoDragging
    /\ PinboardHandled("dragenter", pinboardDragEnter(pinboardPanel, dragging))

\* dragover on the drag mask, which is there while dragOver is set
PinboardDragOver ==
    /\ dragging # NoDragging
    /\ pinboardPanel.dragOver
    /\ PinboardHandled("dragover", pinboardDragOver(pinboardPanel, dragging))

\* dragleave or dragexit on the drag mask
PinboardDragLeave ==
    /\ dragging # NoDragging
    /\ pinboardPanel.dragOver
    /\ PinboardHandled("dragleave", pinboardDragLeave(pinboardPanel, dragging))

\* drop on the drag mask
PinboardDrop ==
    /\ dragging # NoDragging
    /\ pinboardPanel.dragOver
    /\ PinboardHandled("drop", pinboardDrop(pinboardPanel, dragging))

NextPinboard ==
    \/ DimensionDragStart
    \/ DimensionDragEnd
    \/ PinboardDragEnter
    \/ PinboardDragOver
    \/ PinboardDragLeave
    \/ PinboardDrop

SpecPinboard == InitPinboard /\ [][NextPinboard]_vars

TypeOK ==
    /\ pc \in {"ready", "done", "idle"}
    /\ resolution.state \in {"NONE", "MANUAL", "AUTOMATIC", "READY", "THROWN"}

\* ------------------------------------------------------------ properties
\* the evaluator has returned
Evaluated == pc = "done"

\* the evaluator has returned from the fallback
InFallback == pc = "done" /\ ran = "otherwise" /\ resolution.state # "THROWN"

\* the split list the fallback computed for the present context
Adjusted == newSplits(context).splits

\* the data cube's dimension a split is on
OwnDimension(split) == getDimension(dataCube, split.reference)

\* C1: a context with no splits evaluates to MANUAL, whatever the colors,
\* series, data cube and isSelectedVisualization are
C1_NoSplitsManual ==
    (Evaluated /\ Len(splits) = 0) => resolution.state = "MANUAL"

C1_Witness ==
    /\ Evaluated /\ Len(splits) = 0 /\ colors # Null /\ series # <<>>
    /\ isSelectedVisualization /\ resolution.state = "MANUAL"

\* C2: with more splits than the supported maximum the verdict is AUTOMATIC
\* and the adjustment holds exactly the first supportedMax splits, in order
C2_ExcessTruncated ==
    (Evaluated /\ Len(splits) > supportedMax) =>
        /\ resolution.state = "AUTOMATIC"
        /\ Len(resolution.adjustment.splits) = supportedMax
        /\ \A i \in 1..supportedMax : resolution.adjustment.splits[i] = splits[i]

C2_Witness ==
    /\ Evaluated /\ Len(splits) = 3 /\ supportedMax = 2
    /\ splits[1] # splits[2] /\ splits[3] # splits[2]
    /\ resolution.state = "AUTOMATIC"
    /\ resolution.adjustment.splits = << splits[1], splits[2] >>

\* C3: the chain is first-match-wins in registration order: noSplits is
\* tested first and, when it holds, its action alone runs and nothing later
\* is tested; else supportedSplitsCount is tested and, when it holds, its
\* action alone runs; the fallback runs only when both are false.  So the
\* fallback's correction never reaches a context with no or too many splits.
C3_FirstMatchWins ==
    Evaluated =>
        /\ noSplits(context) =>
              /\ tested = << "noSplits" >>
              /\ ran = "manualDimensionSelection"
              /\ resolution = manualDimensionSelection("The Table requires at least one split", context)
        /\ (~noSplits(context) /\ supportedSplitsCount(context)) =>
              /\ tested = << "noSplits", "supportedSplitsCount" >>
              /\ ran = "removeExcessiveSplits"
              /\ resolution = removeExcessiveSplits("Table", context)
        /\ (~noSplits(context) /\ ~supportedSplitsCount(context)) =>
              /\ tested = << "noSplits", "supportedSplitsCount" >>
              /\ ran = "otherwise"
        /\ (Len(splits) = 0 \/ Len(splits) > supportedMax) =>
              /\ ran # "otherwise"
              /\ ~(resolution.state = "AUTOMATIC" /\ resolution.score = 6)
              /\ resolution.state # "READY"

C3_Witness ==
    /\ Evaluated /\ Len(splits) > supportedMax /\ colors # Null
    /\ \E i \in 1..supportedMax : empty(splits[i].sort) /\ splits[i].limit = NoLimit
    /\ ran = "removeExcessiveSplits"
    /\ resolution.adjustment.splits = SubSeq(splits, 1, supportedMax)

\* C4: evaluation is total: it returns READY, AUTOMATIC or MANUAL for every
\* context and never throws, also when a split lacks a sort or a limit,
\* colors are absent, or a split references a dimension not in the data cube
C4_Total ==
    Evaluated => resolution.state \in {"READY", "AUTOMATIC", "MANUAL"}

\* C5: in the fallback, when a sort or a limit was assigned to any split or
\* colors were present, the verdict is AUTOMATIC with priority 6 carrying
\* the adjusted splits; READY only when no split changed and no colors
C5_ChangeIsAutomatic ==
    InFallback =>
        /\ (Adjusted # splits \/ colors # Null) =>
               resolution = automatic(6, Adjustment(Adjusted))
        /\ resolution.state = "READY" => (Adjusted = splits /\ colors = Null)

\* a split of the context needs no limit: it has one, or it has a sort and
\* is on a time dimension
NeedsNoLimit(split) ==
    split.limit # NoLimit \/ (~empty(split.sort) /\ OwnDimension(split).kind = "time")

\* C6: in the fallback, when every split has a sort and needs no limit and
\* no colors are set, the verdict is READY, with priority 10 when the Table
\* is the selected visualization and 8 when it is not
C6_ReadyPriority ==
    (/\ InFallback
     /\ \A i \in 1..Len(splits) : ~empty(splits[i].sort) /\ NeedsNoLimit(splits[i])
     /\ colors = Null) =>
        resolution = ready(IF isSelectedVisualization THEN 10 ELSE 8)

\* C7: at every position, a split without a sort whose own dimension
\* declares sortStrategy "self" gets the sort {own dimension name, descending}
C7_SelfSort ==
    InFallback =>
        \A i \in 1..Len(splits) :
            (empty(splits[i].sort) /\ OwnDimension(splits[i]).sortStrategy = "self") =>
                Adjusted[i].sort = Sort(splits[i].reference, descending)

\* C8: a split without a sort whose own dimension (one of the data cube)
\* declares no sortStrategy gets the data cube's default sort expression,
\* and the verdict is AUTOMATIC
C8_DefaultSort ==
    InFallback =>
        \A i \in 1..Len(splits) :
            (/\ empty(splits[i].sort)
             /\ OwnDimension(splits[i]) # Undefined
             /\ OwnDimension(splits[i]).sortStrategy = Null) =>
                /\ Adjusted[i].sort = getDefaultSortExpression(dataCube)
                /\ resolution.state = "AUTOMATIC"

C10_LimitExactlyWhen ==
    InFallback =>
        \A i \in 1..Len(splits) :
            splits[i].limit = NoLimit =>
                (Adjusted[i].limit # NoLimit <=>
                    (empty(splits[i].sort) \/ OwnDimension(splits[i]).kind # "time"))

\* C11: in the fallback a split that has a sort and no limit and is on a
\* dimension of the cube that is not a time dimension is given a default
\* limit, and the verdict is AUTOMATIC
C11_SortedNonTimeLimited ==
    InFallback =>
        \A i \in 1..Len(splits) :
            (/\ ~empty(splits[i].sort)
             /\ splits[i].limit = NoLimit
             /\ OwnDimension(splits[i]) # Undefined
             /\ OwnDimension(splits[i]).kind # "time") =>
                /\ Adjusted[i].limit = defaultLimit(i - 1)
                /\ resolution.state = "AUTOMATIC"
                /\ resolution.adjustment.splits[i].limit = defaultLimit(i - 1)

\* the last adjustment applied was one of the fallback
FallbackApplied ==
    applied # <<>> /\ applied[Len(applied)].ran = "otherwise"

\* C12: with colors set the fallback's verdict is AUTOMATIC with priority 6,
\* and the state got by applying its adjustment has no colors
C12_ColorsStripped ==
    /\ (InFallback /\ colors # Null) =>
           /\ resolution.state = "AUTOMATIC"
           /\ resolution.score = 6
           /\ resolution.adjustment.colors = Null
    /\ (pc = "ready" /\ FallbackApplied) => colors = Null

C12_Witness ==
    /\ pc = "ready" /\ applied # <<>>
    /\ applied[Len(applied)] = [ran |-> "otherwise", colors |-> StringDim]
    /\ colors = Null

\* C13: after the adjustment of a fallback verdict was applied to a context
\* without colors, the next evaluation is READY, not AUTOMATIC again
C13_Idempotent ==
    (Evaluated /\ FallbackApplied /\ applied[Len(applied)].colors = Null) =>
        resolution.state = "READY"

C13_Witness ==
    /\ Evaluated /\ applied = << [ran |-> "otherwise", colors |-> Null] >>
    /\ Len(splits) = 2 /\ splits[1].limit = 50 /\ splits[2].limit = 5
    /\ resolution.state = "READY"

\* C14: one pass of the fallback applies every correction: when several
\* splits lack a sort and a limit and colors are set, the one AUTOMATIC
\* adjustment has a sort on every split that lacked one and a limit on every
\* split that lacked one and got a sort or is not on a time dimension
C14_AllInOnePass ==
    (/\ InFallback
     /\ colors # Null
     /\ Cardinality({ i \in 1..Len(splits) :
                        empty(splits[i].sort) /\ splits[i].limit = NoLimit }) >= 2) =>
        /\ resolution.state = "AUTOMATIC"
        /\ \A i \in 1..Len(splits) :
              /\ ~empty(resolution.adjustment.splits[i].sort)
              /\ (/\ splits[i].limit = NoLimit
                  /\ empty(splits[i].sort) \/ OwnDimension(splits[i]).kind # "time") =>
                     resolution.adjustment.splits[i].limit = defaultLimit(i - 1)

\* C15: an evaluation leaves its context as it was (the corrections are in
\* the returned adjustment only), and its verdict is the verdict of the
\* context as it stands after the evaluation
C15_Pure ==
    [][(pc = "ready" /\ pc' = "done") =>
          /\ splits' = splits /\ colors' = colors /\ dataCube' = dataCube
          /\ series' = series /\ supportedMax' = supportedMax
          /\ isSelectedVisualization' = isSelectedVisualization
          /\ resolution' = rulesEvaluator(context').resolution]_vars

C15_Witness ==
    /\ Evaluated /\ ran = "otherwise" /\ colors # Null
    /\ resolution.state = "AUTOMATIC"
    /\ resolution.adjustment.splits # splits

\* the positions of the string dimensions of the cube
StringPositions == { j \in DOMAIN cube.dimensions : cube.dimensions[j].kind = "string" }

\* the position of the k-th string dimension of the cube
StringPosition(k) ==
    CHOOSE j \in StringPositions : Cardinality({ h \in StringPositions : h < j }) = k - 1

\* C16: someDimensions returns one suggestion for each of the first two
\* string dimensions of the cube, in cube order (fewer when the cube has
\* fewer); each adjustment has exactly one split, on that dimension
C16_SomeDimensions ==
    helper = "someDimensions" =>
        /\ ~suggestions.thrown
        /\ Len(suggestions.list) =
               (IF Cardinality(StringPositions) < 2 THEN Cardinality(StringPositions) ELSE 2)
        /\ \A k \in 1..Len(suggestions.list) :
              /\ Len(suggestions.list[k].adjustment.splits) = 1
              /\ suggestions.list[k].adjustment.splits[1].reference =
                     cube.dimensions[StringPosition(k)].name

C16_Witness ==
    /\ helper = "someDimensions"
    /\ Len(cube.dimensions) = 3
    /\ cube.dimensions[1].kind = "time"
    /\ cube.dimensions[2].kind = "string" /\ cube.dimensions[3].kind = "string"
    /\ Len(suggestions.list) = 2
    /\ suggestions.list[1].adjustment.splits[1].reference = "d2"
    /\ suggestions.list[2].adjustment.splits[1].reference = "d3"

\* every declared default measure names a measure of the cube
DefaultsResolve ==
    \A i \in DOMAIN cube.defaultSelectedMeasures.names :
        \E j \in DOMAIN cube.measures :
            cube.measures[j].name = cube.defaultSelectedMeasures.names[i]

\* C17: defaultSelectedMeasures returns exactly one suggestion whose series
\* are the declared default measures, one each and in declared order, when
\* the cube declares default measures (that are measures of the cube), and
\* the empty list when it declares none (absent or empty)
C17_DefaultSelectedMeasures ==
    (helper = "defaultSelectedMeasures" /\ DefaultsResolve) =>
        LET names == cube.defaultSelectedMeasures.names
        IN  /\ ~suggestions.thrown
            /\ names = <<>> => suggestions.list = <<>>
            /\ names # <<>> =>
                  /\ Len(suggestions.list) = 1
                  /\ Len(suggestions.list[1].adjustment.series) = Len(names)
                  /\ \A i \in DOMAIN names :
                         suggestions.list[1].adjustment.series[i].reference = names[i]

C17_Witness ==
    /\ helper = "defaultSelectedMeasures"
    /\ Len(cube.measures) = 2
    /\ Len(cube.defaultSelectedMeasures.names) = 2
    /\ cube.defaultSelectedMeasures.names[1] = cube.measures[2].name
    /\ cube.defaultSelectedMeasures.names[2] = cube.measures[1].name
    /\ Len(suggestions.list) = 1
    /\ Len(suggestions.list[1].adjustment.series) = 2

\* C18: firstMeasure returns one suggestion whose series list is exactly
\* one series, that of the first declared measure of the cube
C18_FirstMeasure ==
    (helper = "firstMeasure" /\ cube.measures # <<>>) =>
        /\ ~suggestions.thrown
        /\ Len(suggestions.list) = 1
        /\ Len(suggestions.list[1].adjustment.series) = 1
        /\ suggestions.list[1].adjustment.series[1].reference = cube.measures[1].name

C18_Witness ==
    /\ helper = "firstMeasure"
    /\ Len(cube.measures) = 2
    /\ Len(suggestions.list) = 1
    /\ suggestions.list[1].adjustment.series = << [reference |-> cube.measures[1].name] >>

\* C19: each of the three helpers returns a list of {description,
\* adjustment} pairs for every data cube and none throws, also for a cube
\* without string dimensions, without measures, or with default measure
\* names that are not measures of the cube
C19_HelpersTotal ==
    helper # Null => ~suggestions.thrown

\* the clicker has both highlight methods, so a click builds the filter
ClickerComplete == clicker.dropHighlight /\ clicker.changeHighlight

\* C20: a highlight filter built from a clicked row has at most one clause
\* per reference: for a row at nesting level n with 1 <= n <= split count it
\* has exactly n clauses, the i-th on the i-th split's reference with the
\* row's segment value of it; for n = 0 or n above the split count no filter
\* is built
C20_RowFilter ==
    clicks =>
        /\ ~rowHighlight.isNull =>
              /\ row.nest >= 1 /\ row.nest <= Len(tableSplits)
              /\ Len(rowHighlight.clauses) = row.nest
              /\ \A i \in 1..row.nest :
                    /\ rowHighlight.clauses[i].reference = tableSplits[i].reference
                    /\ rowHighlight.clauses[i].values =
                           { row.segments[tableSplits[i].reference] }
              /\ \A i, j \in DOMAIN rowHighlight.clauses :
                    rowHighlight.clauses[i].reference = rowHighlight.clauses[j].reference
                        => i = j
        /\ (row.nest = 0 \/ row.nest > Len(tableSplits)) => rowHighlight.isNull
        /\ (ClickerComplete /\ row.nest >= 1 /\ row.nest <= Len(tableSplits))
               => ~rowHighlight.isNull

C20_Witness ==
    /\ clicks /\ Len(tableSplits) = 2 /\ row.nest = 1
    /\ ~rowHighlight.isNull /\ Len(rowHighlight.clauses) = 1
    /\ call.name = "changeHighlight"

\* the step is a mouseup that ends a click or a drag
MouseUpEndsDrag ==
    /\ lineChartLog'.event = "mouseup"
    /\ lineChartState.dragStartValue # NoValue

\* the mouseup ends a click (no drag movement) inside the line chart's highlight
ClickInsideHighlight ==
    /\ lineChartState.dragRange = NullRange
    /\ highlightOn(highlight, LineChartId)
    /\ contains(getHighlightRange(highlight), pointer)

\* C21: a mouseup that ends a click without drag movement inside the range of
\* an existing line-chart highlight switches the measure: the highlight is
\* dropped when its measure is the clicked chart's, otherwise changeHighlight
\* is called with the clicked measure and the unchanged delta; every other
\* mouseup that ends a drag calls changeHighlight with a new filter of one
\* clause on the continuous dimension
C21_ClickSwitchesMeasure ==
    [][MouseUpEndsDrag =>
          IF ClickInsideHighlight
          THEN IF highlight.measure = lineChartState.dragOnMeasure
               THEN call' = Call("dropHighlight", Null, Null, NullFilter)
               ELSE call' = Call("changeHighlight", LineChartId,
                                 lineChartState.dragOnMeasure, highlight.delta)
          ELSE /\ call'.name = "changeHighlight"
               /\ call'.owner = LineChartId
               /\ call'.measure = lineChartState.dragOnMeasure
               /\ Len(call'.delta.clauses) = 1
               /\ call'.delta.clauses[1].reference =
                      lineChartSetup.continuousDimension.name
               /\ call'.delta.clauses[1].clause =
                      (IF lineChartSetup.continuousDimension.kind = "number"
                       THEN "NumberFilterClause" ELSE "FixedTimeFilterClause")]_vars

\* C25: the global mousemove, mouseup and Escape handlers do nothing while
\* dragStartValue is null; a mousedown starts a drag only when scaleX and both
\* clicker.dropHighlight and clicker.changeHighlight exist; after a mouseup or
\* an Escape during a drag the four drag fields are null; the clicker is
\* called exactly once per drag ended by mouseup and never on Escape
C25_DragLifecycle ==
    [][/\ (lineChartLog'.event \in {"mousemove", "mouseup", "escape"}
            /\ lineChartState.dragStartValue = NoValue)
           => (lineChartState' = lineChartState /\ call' = NoCall
               /\ highlight' = highlight)
       /\ (lineChartLog'.event = "mousedown"
            /\ lineChartState'.dragStartValue # NoValue)
           => (lineChartSetup.scaleX /\ ClickerComplete)
       /\ (lineChartLog'.event \in {"mouseup", "escape"}
            /\ lineChartState.dragStartValue # NoValue)
           => lineChartState' = resetDrag
       /\ (lineChartLog'.event = "mouseup"
            /\ lineChartState.dragStartValue # NoValue)
           => (call' # NoCall /\ lineChartLog'.called = lineChartLog.called + 1)
       /\ lineChartLog'.event = "escape"
           => (call' = NoCall /\ lineChartLog'.called = lineChartLog.called)]_vars

\* C22: closeMenu with a menu open clears menuOpenOn, menuDimension,
\* menuInside, possibleDimension and possiblePosition, and closes the overflow
\* menu exactly when a placeholder (possibleDimension) was being added; with no
\* menu open it changes no state
C22_CloseMenu ==
    [][filterTileLog'.event = "closeMenu" =>
          IF filterTile.menuOpenOn # Null
          THEN /\ filterTile'.menuOpenOn = Null
               /\ filterTile'.menuDimension = Null
               /\ filterTile'.menuInside = Null
               /\ filterTile'.possibleDimension = Null
               /\ filterTile'.possiblePosition = NoPosition
               /\ filterTile'.overflowMenuOpenOn =
                      (IF filterTile.possibleDimension # Null THEN Null
                       ELSE filterTile.overflowMenuOpenOn)
               /\ filterTile'.dragPosition = filterTile.dragPosition
               /\ filterTile'.maxItems = filterTile.maxItems
          ELSE filterTile' = filterTile]_vars

\* closeMenu has closed the menu of a placeholder and the overflow menu the
\* placeholder was in
C22_Witness ==
    /\ filterTileLog.event = "closeMenu"
    /\ filterTileLog.overflowClosed
    /\ filterTile.menuOpenOn = Null
    /\ filterTile.overflowMenuOpenOn = Null

\* the filter the drop re-arranges the current one to
Rearranged(position) ==
    IF isReplace(position)
    THEN replaceByIndex(filter, position.replace, dragging.dimension)
    ELSE insertByIndex(filter, position.insert, dragging.dimension)

\* C23: a drop of a dimension that has a clause in the filter calls
\* changeFilter exactly when the re-arranged filter differs from the current
\* one; it never requests the filter menu when the drag began in the filter
\* tile; for a drag from elsewhere it requests the menu at once when the
\* filter is unchanged and after the animation delay when it changed
C23_DropRearranges ==
    [][(filterTileLog'.event = "drop" /\ dragging.dimension # Null
        /\ filteredOn(filter, dragging.dimension)) =>
          LET rearranged == Rearranged(filterTileLog'.position)
          IN  /\ filterTileLog'.changeFilter <=> rearranged # filter
              /\ filterTileLog'.menuRequest =
                     (IF dragging.origin = FILTER_TILE THEN "none"
                      ELSE IF rearranged = filter THEN "immediate"
                      ELSE "delayed")]_vars

\* C24: the Table fallback only fills in missing values: the adjusted split
\* list has the length and the order of the input, every split keeps its
\* dimension reference and its bucket, and every sort or limit that was set
\* on an input split is unchanged
C24_OnlyFillsMissing ==
    (InFallback /\ resolution.state = "AUTOMATIC") =>
        LET adjusted == resolution.adjustment.splits
        IN  /\ Len(adjusted) = Len(splits)
            /\ \A i \in 1..Len(splits) :
                  /\ adjusted[i].reference = splits[i].reference
                  /\ adjusted[i].bucket = splits[i].bucket
                  /\ ~empty(splits[i].sort) => adjusted[i].sort = splits[i].sort
                  /\ splits[i].limit # NoLimit => adjusted[i].limit = splits[i].limit

\* the fallback has filled in the sort and the limit of one split and left
\* alone the sort and the limit the other one had
C24_Witness ==
    /\ InFallback /\ resolution.state = "AUTOMATIC" /\ Len(splits) = 2
    /\ empty(splits[1].sort) /\ splits[1].limit = NoLimit
    /\ splits[2].sort = UserSort /\ splits[2].limit = 10
    /\ splits[2].bucket # Null
    /\ ~empty(resolution.adjustment.splits[1].sort)
    /\ resolution.adjustment.splits[1].limit = 50
    /\ resolution.adjustment.splits[2] = splits[2]

\* C26: pressing OK (or Enter) in the SplitMenu calls clicker.changeSplits
\* and onClose exactly when the granularity is valid for the dimension's
\* kind and either the split built from the menu's state differs from the
\* original split or the original colors exist and differ from the menu's
\* colors; otherwise nothing is called and the menu stays open.  Cancel
\* calls onClose and never changeSplits.
MenuChanged ==
    /\ isGranularityValid(splitMenuProps.dimension.kind, splitMenu.state.granularity)
    /\ \/ Split(splitMenuProps.split.type, splitMenu.state.reference,
                splitMenu.state.limit, splitMenu.state.sort,
                constructGranularity(splitMenuProps, splitMenu.state))
            # splitMenuProps.split
       \/ (splitMenuProps.colors # NoColors
           /\ splitMenuProps.colors # splitMenu.state.colors)
C26_OkOnlyWhenValid ==
    [][ /\ splitMenuLog'.event \in {"ok", "enter"} =>
            IF MenuChanged
            THEN /\ splitMenuLog'.pressed.changeSplits
                 /\ splitMenuLog'.pressed.onClose
                 /\ splitMenuLog'.pressed.colors = splitMenu.state.colors
                 /\ ~splitMenu'.open
            ELSE /\ splitMenuLog'.pressed = NothingPressed
                 /\ splitMenu'.open
        /\ splitMenuLog'.event = "cancel" =>
            /\ splitMenuLog'.pressed.onClose
            /\ ~splitMenuLog'.pressed.changeSplits ]_vars
\* Enter has submitted a menu in which only the colors were changed
C26_Witness ==
    /\ splitMenuLog.event = "enter"
    /\ splitMenuLog.pressed.changeSplits
    /\ splitMenuLog.pressed.split = splitMenuProps.split
    /\ splitMenuLog.pressed.colors # splitMenuProps.colors
    /\ ~splitMenu.open

\* the step is a click on the corner or on a header column of the Table
HeaderClicked == tableClick'.element \in {CORNER, HEADER}

\* C27: a click on a header column or on the corner requests a sort on that
\* column's reference (the placeholder for the corner); its direction is
\* ascending if and only if the current common sort has the same reference
\* and is descending, and descending otherwise.  So a click on the column of
\* the previous click requests the other direction, and a click on another
\* column requests descending.
C27_HeaderSort ==
    [][ (HeaderClicked /\ tableClick.changeSplits) =>
            LET requested == tableClick'.sortExpression
                commonSort == getCommonSort(tableSplits, tableSorts)
            IN  /\ requested.reference = tableClick'.reference
                /\ (tableClick'.element = CORNER)
                       <=> (requested.reference = SORT_ON_DIMENSION_PLACEHOLDER)
                /\ requested.direction \in {ascending, descending}
                /\ (requested.direction = ascending)
                       <=> /\ commonSort # NoCommonSort
                           /\ commonSort.reference = requested.reference
                           /\ commonSort.direction = descending
                /\ \A i \in DOMAIN tableSplits :
                       normalizedSort(tableSplits[i], tableSorts'[i]) = requested
                /\ (tableClick.sortExpression # EmptySort
                        /\ tableClick.reference = requested.reference)
                       => requested.direction # tableClick.sortExpression.direction
                /\ (tableClick.sortExpression # EmptySort
                        /\ tableClick.reference # requested.reference)
                       => requested.direction = descending ]_vars
\* a second click on the delta column of a Table with two splits has asked
\* for the ascending sort
C27_Witness ==
    /\ tableClick.element = HEADER
    /\ tableClick.reference = "_delta__count"
    /\ tableClick.sortExpression = Sort("_delta__count", ascending)
    /\ Len(tableSplits) = 2
    /\ tableSorts = << Sort("_delta__count", ascending), Sort("_delta__count", ascending) >>

\* C28: a click on a data row toggles the row highlight: when the Table owns
\* the highlight and its delta equals the filter built from the row,
\* dropHighlight is called, otherwise changeHighlight(Table.id, null, the
\* row's filter); a click on the Total row or on whitespace makes no clicker
\* call.  A second click on the same row after a click made without a
\* highlight leaves no highlight.
C28_RowToggle ==
    [][ /\ (tableClick'.element = ROW /\ ClickerComplete) =>
              IF row'.nest = 0 \/ rowHighlight'.isNull
              THEN call' = NoCall /\ highlight' = highlight
              ELSE IF highlight # NoHighlight /\ highlight.owner = TableId
                      /\ highlight.delta = rowHighlight'
              THEN call'.name = "dropHighlight" /\ highlight' = NoHighlight
              ELSE /\ call' = Call("changeHighlight", TableId, Null, rowHighlight')
                   /\ highlight' = Highlight(TableId, Null, rowHighlight')
        /\ tableClick'.element \in {WHITESPACE, SPACE_LEFT} =>
              call' = NoCall /\ highlight' = highlight
        /\ (tableClick'.element = ROW /\ tableClick.element = ROW /\ row' = row
                /\ tableClick.before = NoHighlight)
              => highlight' = NoHighlight ]_vars
\* the second click on a row has dropped the highlight the first click made
C28_Witness ==
    /\ tableClick.element = ROW
    /\ call.name = "dropHighlight"
    /\ highlight = NoHighlight
    /\ row.nest = 2
    /\ tableClick.before = Highlight(TableId, Null, rowHighlight)

\* C29: after a drop or a drag-leave on the pinboard panel dragOver is
\* false, so the drop indicator and the drag mask do not stay shown once
\* the drag has left or ended, whatever dimension is dragged at that moment
C29_DragOverCleared ==
    pinboardLog.event \in {"drop", "dragleave"} => ~pinboardPanel.dragOver

====
